---- MODULE Spec2Model ----
(***************************************************************************)
(* Verification model of AWaveViewer (src/AWaveViewer.py).                 *)
(*                                                                         *)
(* Text is modelled as a sequence of symbols.  A symbol is one character   *)
(* ("1", "#", " ", "!") or a keyword / word that the code only ever tests  *)
(* as a whole ("$var", "$end", "wire", "ns").                              *)
(*                                                                         *)
(* SpecVCD   : VCDParser.parse, one step per line of the trace file.       *)
(* SpecReparse : several calls of parse on one VCDParser instance.         *)
(* SpecQuery : get_value_at_time / get_signal_value_at_time on one record. *)
(* SpecApp   : the main window's handlers for editing, parsing, loading and *)
(*             generating.                                                 *)
(* SpecSim   : run_simulation, the simulation thread and its signals.      *)
(* SpecSyntax : one call of VerilogSyntaxChecker.check_syntax.              *)
(* SpecModule : one call of VerilogParser.parse_module.                     *)
(* SpecGen    : one call of TestbenchGenerator.generate_testbench.          *)
(* SpecGate   : one call of AWaveViewer.detect_gate_type.                   *)
(* SpecVerify : detect_gate_type followed by verify_gate_logic.             *)
(* SpecLogic  : one call of AWaveViewer.analyze_combinational_logic.        *)
(* SpecRoundTrip : generate_sample_vcd, then parse of the file it wrote.    *)
(* SpecRuns   : one testbench loaded, then simulated repeatedly; FairRuns   *)
(*              adds that threads run on and signals are delivered.         *)
(***************************************************************************)
EXTENDS Integers, Sequences, FiniteSets, TLC

VARIABLES
    \* ---- VCDParser instance fields and the locals of parse ----
    pcParse,          \* "init" | "loop" | "returned" | "raised"
    in_header,        \* local in_header of parse
    current_time,     \* local current_time of parse
    timescale,        \* self.timescale, [value, exp] standing for value * 10^-exp
    signals,          \* self.signals : identifier -> record
    changes,          \* self.changes : sequence of <<time, identifier, value>>
    scope_hierarchy,  \* self.scope_hierarchy
    line,             \* the line of the file the loop consumed last (raw)
    nLines,           \* number of lines consumed so far
    trace,            \* the file vcd_file names
    returns,          \* what each call of parse on this instance returned
    \* ---- one call of the point-in-time lookup ----
    qPc,              \* "idle" | "ready" | "done"
    qValues,          \* signal['values'] : sequence of <<time, value>>
    qTime,            \* the argument time
    qResult,          \* the returned string
    \* ---- AWaveViewer (main window) ----
    verilog_editor,   \* text of the source editor
    module_info,      \* self.module_info
    testbench_code,   \* self.testbench_code
    tb_editor,        \* text of the testbench editor
    gen_tb_btn,       \* the Generate Testbench button is enabled
    run_sim_btn,      \* the Run Simulation button is enabled
    statusBar,        \* the message the status bar shows
    vcd_file,         \* self.vcd_file
    \* ---- files in self.temp_dir ----
    testbench_v,      \* content of testbench.v
    wave_vcd,         \* wave.vcd: [exists, signals, run (the thread that wrote it)]
    \* ---- SimulationThread objects and their queued signals ----
    sim_threads,      \* one record per thread started, in order of creation
    events,           \* progress / finished emissions not yet delivered
    \* ---- history ----
    handler,          \* the main-window handler that ran last
    generator_calls,  \* the module names TestbenchGenerator was called with
    \* ---- one call of a static method ----
    callPc,           \* "idle" | the name of the method to call | "done"
    callArgs,         \* its arguments
    callResult        \* what it returned

vcdVars == <<pcParse, in_header, current_time, timescale, signals, changes,
             scope_hierarchy, line, nLines, trace, returns>>

queryVars == <<qPc, qValues, qTime, qResult>>

uiVars == <<verilog_editor, module_info, testbench_code, tb_editor, gen_tb_btn,
            run_sim_btn, statusBar, vcd_file>>

appVars == <<uiVars, testbench_v, wave_vcd, sim_threads, events, handler,
             generator_calls>>

callVars == <<callPc, callArgs, callResult>>

nonVcdVars == <<queryVars, appVars, callVars>>

nonAppVars == <<vcdVars, queryVars, callVars>>

nonCallVars == <<vcdVars, queryVars, appVars>>

vars == <<pcParse, in_header, current_time, timescale, signals, changes,
          scope_hierarchy, line, nLines, trace, returns, qPc, qValues, qTime, qResult,
          verilog_editor, module_info, testbench_code, tb_editor, gen_tb_btn,
          run_sim_btn, statusBar, vcd_file, testbench_v, wave_vcd, sim_threads,
          events, handler, generator_calls, callPc, callArgs, callResult>>

-----------------------------------------------------------------------------
(* Bounds *)

MaxLines == 6       \* lines of one trace file
MaxChanges == 2     \* changes of the record a lookup runs on
MaxTime == 2        \* largest timestamp of such a change
MaxRuns == 1        \* simulation threads started in one session
MaxCalls == 3       \* calls of parse on one VCDParser instance
MaxChunks == 3      \* pieces a source text given to check_syntax is made of
MaxDecls == 2       \* declarations of a source text given to parse_module
MaxPorts == 2       \* ports in one list of a ModuleInfo given to generate_testbench
MaxReruns == 2      \* simulation threads started in a session of repeated runs
MaxSteps == 13      \* time steps of the 200 that generate_sample_vcd writes

-----------------------------------------------------------------------------
(* AWaveViewer.__init__ *)

None == <<"<None>">>               \* None where the code expects a text
NoModuleInfo == [none |-> TRUE]    \* None where the code expects a ModuleInfo
NoFile == [exists |-> FALSE, signals |-> FALSE, run |-> 0]

AppInit ==
    /\ verilog_editor = <<>>
    /\ module_info = NoModuleInfo
    /\ testbench_code = None
    /\ tb_editor = <<>>
    /\ gen_tb_btn = FALSE
    /\ run_sim_btn = FALSE
    /\ statusBar = <<"Ready | AWaveViewer Professional Edition">>
    /\ vcd_file = None
    /\ testbench_v = None
    /\ wave_vcd = NoFile
    /\ sim_threads = <<>>
    /\ events = <<>>
    /\ handler = "__init__"
    /\ generator_calls = {}

\* no static method is being called
NoResult == [none |-> TRUE]

CallIdle ==
    /\ callPc = "idle"
    /\ callArgs = NoResult
    /\ callResult = NoResult

-----------------------------------------------------------------------------
(* Characters and Python string helpers *)

Whitespace == {" ", "\n"}
Digits == {"0", "1", "2", "3", "4", "5", "6", "7", "8", "9"}

RECURSIVE LStrip(_)
LStrip(s) ==
    IF s = <<>> THEN s
    ELSE IF s[1] \in Whitespace THEN LStrip(Tail(s)) ELSE s

RECURSIVE RStrip(_)
RStrip(s) ==
    IF s = <<>> THEN s
    ELSE IF s[Len(s)] \in Whitespace THEN RStrip(SubSeq(s, 1, Len(s) - 1)) ELSE s

\* str.strip()
Strip(s) == RStrip(LStrip(s))

\* index of the first whitespace symbol of s, Len(s)+1 when there is none
RECURSIVE FirstSpace(_, _)
FirstSpace(s, i) ==
    IF i > Len(s) THEN i
    ELSE IF s[i] \in Whitespace THEN i ELSE FirstSpace(s, i + 1)

\* str.split(): the maximal runs of non-whitespace symbols
RECURSIVE Split(_)
Split(s) ==
    LET t == LStrip(s) IN
    IF t = <<>> THEN <<>>
    ELSE LET k == FirstSpace(t, 1) IN
         <<SubSeq(t, 1, k - 1)>> \o Split(SubSeq(t, k, Len(t)))

\* str.startswith(kw) for a keyword symbol kw
StartsWith(s, kw) == s # <<>> /\ s[1] = kw

RECURSIVE DigitsVal(_, _)
DigitsVal(s, acc) ==
    LET
        DigitVal(c) ==
            CASE c = "0" -> 0 [] c = "1" -> 1 [] c = "2" -> 2 [] c = "3" -> 3
              [] c = "4" -> 4 [] c = "5" -> 5 [] c = "6" -> 6 [] c = "7" -> 7
              [] c = "8" -> 8 [] c = "9" -> 9
    IN
    IF s = <<>> THEN acc ELSE DigitsVal(Tail(s), 10 * acc + DigitVal(s[1]))

\* int(s): surrounding whitespace is ignored, one optional sign, then digits.
\* IntOk(s) is FALSE exactly when int(s) raises ValueError.
IntBody(s) ==
    LET t == Strip(s) IN
    IF t # <<>> /\ t[1] \in {"-", "+"} THEN Tail(t) ELSE t

IntOk(s) ==
    LET
        AllDigits(str) == str # <<>> /\ \A i \in 1..Len(str) : str[i] \in Digits
    IN
    AllDigits(IntBody(s))

IntOf(s) ==
    LET t == Strip(s) IN
    IF t # <<>> /\ t[1] = "-" THEN 0 - DigitsVal(IntBody(s), 0)
    ELSE DigitsVal(IntBody(s), 0)

-----------------------------------------------------------------------------
(* The trace lines the file is made of *)

SP == " "

Lines ==
    LET
        VarLine(width, id, name) ==
            <<"$var", SP, "wire", SP>> \o width \o <<SP>> \o id \o <<SP, name, SP, "$end">>
    IN
    { <<"\n">>,                                                  \* blank line
      <<"$timescale", SP, "1", "ps", SP, "$end", "\n">>,          \* $timescale 1ps $end
      <<"$scope", SP, "module", SP, "uut", SP, "$end">>,
      <<"$upscope", SP, "$end">>,
      VarLine(<<"1">>, <<"!">>, "a"),                             \* $var wire 1 ! a $end
      VarLine(<<"2">>, <<"!">>, "d"),                             \* same identifier again
      VarLine(<<"x">>, <<"!">>, "a"),                             \* width is not an integer
      <<"$var", SP, "wire", SP, "1", SP, "!">>,                   \* too few fields
      <<"$enddefinitions", SP, "$end">>,
      <<"$dumpvars">>,
      <<"#", "5">>,
      <<"#", "2", "\n">>,
      <<"#", "z">>,                                               \* malformed time marker
      <<"1", "!">>,
      <<SP, "0", "!", "\n">>,
      <<"x", "?">>,                                               \* undeclared identifier
      <<"b", "1", "0", SP, "!">>,
      <<"b", "1", SP, "?">>,                                      \* undeclared identifier
      <<"b", "1">> }                                              \* vector without identifier

-----------------------------------------------------------------------------
(* VCDParser *)

\* the branch of the elif chain of the loop body that the stripped line l takes
Branch(l, hdr) ==
    LET
        ScalarChars == {"0", "1", "x", "z", "X", "Z"}
    IN
    IF l = <<>> THEN "blank"
    ELSE IF StartsWith(l, "$timescale") THEN "timescale"
    ELSE IF StartsWith(l, "$scope") THEN "scope"
    ELSE IF StartsWith(l, "$upscope") THEN "upscope"
    ELSE IF StartsWith(l, "$var") THEN "var"
    ELSE IF StartsWith(l, "$enddefinitions") THEN "enddefinitions"
    ELSE IF ~hdr THEN
        IF StartsWith(l, "#") THEN "time"
        ELSE IF l[1] \in ScalarChars THEN "scalar"
        ELSE IF l[1] = "b" THEN "vector"
        ELSE "other"
    ELSE "other"

\* re.search(r'(\d+)\s*(\w+)', line): <<digits, unit>> of the leftmost match,
\* <<>> when there is none
RECURSIVE RunEnd(_, _, _)
RunEnd(s, i, set) ==
    IF i <= Len(s) /\ s[i] \in set THEN RunEnd(s, i + 1, set) ELSE i

RECURSIVE TimescaleMatch(_, _)
TimescaleMatch(s, i) ==
    LET
        WordChars == Digits \cup {"a", "d", "ns", "ps", "us", "ms", "s", "fs", "x", "z",
                                  "b", "module", "uut", "wire"}
    IN
    IF i > Len(s) THEN <<>>
    ELSE IF s[i] \notin Digits THEN TimescaleMatch(s, i + 1)
    ELSE LET d == RunEnd(s, i, Digits)            \* digits are s[i..d-1]
             w == RunEnd(s, d, Whitespace)        \* then optional whitespace
             u == RunEnd(s, w, WordChars)         \* then the word s[w..u-1]
         IN  IF u > w THEN <<SubSeq(s, i, d - 1), SubSeq(s, w, u - 1)>>
             \* no word follows: \d+ gives its last digit back to \w+
             ELSE IF d - i >= 2 THEN <<SubSeq(s, i, d - 2), SubSeq(s, d - 1, d - 1)>>
             ELSE TimescaleMatch(s, i + 1)

\* '.'.join(names)
RECURSIVE DotJoin(_)
DotJoin(names) ==
    IF names = <<>> THEN <<>>
    ELSE IF Len(names) = 1 THEN names[1]
    ELSE names[1] \o <<".">> \o DotJoin(Tail(names))

\* the identifier a scalar or vector value line names
ValueIdent(l) ==
    IF l[1] = "b" THEN Split(l)[2] ELSE Strip(Tail(l))

\* the value a scalar or vector value line carries
ValueOf(l) ==
    IF l[1] = "b" THEN Tail(Split(l)[1]) ELSE <<l[1]>>

\* the two appends of a value line whose identifier is known
StoreChange(id, value) ==
    /\ signals' = [signals EXCEPT ![id].values = Append(@, <<current_time, value>>)]
    /\ changes' = Append(changes, <<current_time, id, value>>)

\* what a call returned: the two returned objects as they were at the return
\* (shared: they are self.signals and self.changes themselves)
Returned(sigs, chgs, shared) ==
    [trace |-> trace, signals |-> sigs, changes |-> chgs, shared |-> shared]

\* the fields VCDParser.__init__ sets and the locals of a call not yet made
ParserInit ==
    /\ pcParse = "init"
    /\ in_header = TRUE
    /\ current_time = 0
    /\ timescale = [value |-> 1, exp |-> 0]
    /\ signals = <<>>
    /\ changes = <<>>
    /\ scope_hierarchy = <<>>
    /\ line = <<>>
    /\ nLines = 0
    /\ returns = <<>>

\* VCDParser.__init__, and parse is called on a file nothing is known about
VCDInit ==
    /\ ParserInit
    \* a file of which nothing is fixed beforehand: it may be missing, and
    \* each step of the loop finds any line or the end of the file
    /\ trace = [kind |-> "any", lines |-> <<>>]

\* parse: the file does not exist, two new empty objects are returned
ParseNoFile ==
    /\ pcParse = "init"
    /\ trace.kind \in {"any", "missing"}
    /\ pcParse' = "returned"
    /\ returns' = Append(returns, Returned(<<>>, <<>>, FALSE))
    /\ UNCHANGED <<in_header, current_time, timescale, signals, changes,
                   scope_hierarchy, line, nLines, trace>>
    /\ UNCHANGED nonVcdVars

\* parse: the file is read, in_header and current_time are set
ParseOpen ==
    /\ pcParse = "init"
    /\ trace.kind \in {"any", "file"}
    /\ pcParse' = "loop"
    /\ in_header' = TRUE
    /\ current_time' = 0
    /\ UNCHANGED <<timescale, signals, changes, scope_hierarchy, line, nLines,
                   trace, returns>>
    /\ UNCHANGED nonVcdVars

\* for line in lines: the lines the loop can find next.  Of a file nothing
\* is known about, any line of Lines; of a file with known lines, the line
\* that follows the ones consumed
ReadLines ==
    IF trace.kind = "file"
    THEN {trace.lines[k] : k \in {nLines + 1} \cap 1..Len(trace.lines)}
    ELSE Lines

\* the loop takes the next line of the file
Consume(raw, branch) ==
    /\ pcParse = "loop"
    /\ trace.kind # "file" => nLines < MaxLines
    /\ trace.kind = "file" => nLines < Len(trace.lines) /\ raw = trace.lines[nLines + 1]
    /\ Branch(Strip(raw), in_header) = branch
    /\ line' = raw
    /\ nLines' = nLines + 1
    /\ UNCHANGED <<trace, returns>>
    /\ UNCHANGED nonVcdVars

ParseBlank ==
    \E raw \in ReadLines :
        /\ Consume(raw, "blank")
        /\ UNCHANGED <<pcParse, in_header, current_time, timescale, signals,
                       changes, scope_hierarchy>>

ParseTimescale ==
    LET
        \* unit_map.get(scale_unit, 1e-9), as the negated exponent of ten
        UnitExp(u) ==
            IF u = <<"s">> THEN 0
            ELSE IF u = <<"ms">> THEN 3
            ELSE IF u = <<"us">> THEN 6
            ELSE IF u = <<"ns">> THEN 9
            ELSE IF u = <<"ps">> THEN 12
            ELSE IF u = <<"fs">> THEN 15
            ELSE 9
    IN
    \E raw \in ReadLines :
        /\ Consume(raw, "timescale")
        /\ LET m == TimescaleMatch(Strip(raw), 1) IN
           timescale' = IF m = <<>> THEN timescale
                        ELSE [value |-> IntOf(m[1]), exp |-> UnitExp(m[2])]
        /\ UNCHANGED <<pcParse, in_header, current_time, signals, changes,
                       scope_hierarchy>>

ParseScope ==
    \E raw \in ReadLines :
        /\ Consume(raw, "scope")
        /\ LET parts == Split(Strip(raw)) IN
           scope_hierarchy' = IF Len(parts) >= 3
                              THEN Append(scope_hierarchy, parts[3])
                              ELSE scope_hierarchy
        /\ UNCHANGED <<pcParse, in_header, current_time, timescale, signals, changes>>

ParseUpscope ==
    \E raw \in ReadLines :
        /\ Consume(raw, "upscope")
        /\ scope_hierarchy' = IF scope_hierarchy # <<>>
                              THEN SubSeq(scope_hierarchy, 1, Len(scope_hierarchy) - 1)
                              ELSE scope_hierarchy
        /\ UNCHANGED <<pcParse, in_header, current_time, timescale, signals, changes>>

ParseVar ==
    LET
        \* d[k] = v for a dict d
        DictPut(d, k, v) == [x \in DOMAIN d \cup {k} |-> IF x = k THEN v ELSE d[x]]
    IN
    \E raw \in ReadLines :
        /\ Consume(raw, "var")
        /\ LET parts == Split(Strip(raw)) IN
           IF Len(parts) >= 5 THEN
               IF IntOk(parts[3]) THEN
                   /\ signals' = DictPut(signals, parts[4],
                          [name |-> parts[5],
                           full_name |-> DotJoin(Append(scope_hierarchy, parts[5])),
                           width |-> IntOf(parts[3]),
                           type |-> parts[2],
                           values |-> <<>>])
                   /\ pcParse' = pcParse
               ELSE \* int(parts[2]) raises ValueError, which parse does not catch
                   /\ pcParse' = "raised"
                   /\ signals' = signals
           ELSE
               /\ pcParse' = pcParse
               /\ signals' = signals
        /\ UNCHANGED <<in_header, current_time, timescale, changes, scope_hierarchy>>

\* slip: the marker toggles the state instead of leaving Header for good
ParseEndDefinitions_Toggle ==
    \E raw \in ReadLines :
        /\ Consume(raw, "enddefinitions")
        /\ in_header' = ~in_header
        /\ UNCHANGED <<pcParse, current_time, timescale, signals, changes,
                       scope_hierarchy>>

ParseEndDefinitions ==
    \E raw \in ReadLines :
        /\ Consume(raw, "enddefinitions")
        /\ in_header' = FALSE
        /\ UNCHANGED <<pcParse, current_time, timescale, signals, changes,
                       scope_hierarchy>>

ParseTimeMarker ==
    \E raw \in ReadLines :
        /\ Consume(raw, "time")
        /\ LET rest == Tail(Strip(raw)) IN
           IF IntOk(rest) THEN
               /\ current_time' = IntOf(rest)
               /\ pcParse' = pcParse
           ELSE \* int(line[1:]) raises ValueError, which parse does not catch
               /\ pcParse' = "raised"
               /\ current_time' = current_time
        /\ UNCHANGED <<in_header, timescale, signals, changes, scope_hierarchy>>

\* slip: the change log is appended to outside the "identifier in self.signals" test
ParseScalar_LogAlways ==
    \E raw \in ReadLines :
        /\ Consume(raw, "scalar")
        /\ LET l == Strip(raw)
               identifier == ValueIdent(l)
           IN  IF identifier \in DOMAIN signals
               THEN StoreChange(identifier, ValueOf(l))
               ELSE /\ signals' = signals
                    /\ changes' = Append(changes, <<current_time, identifier, ValueOf(l)>>)
        /\ UNCHANGED <<pcParse, in_header, current_time, timescale, scope_hierarchy>>

ParseScalar ==
    \E raw \in ReadLines :
        /\ Consume(raw, "scalar")
        /\ LET l == Strip(raw)
               identifier == ValueIdent(l)
           IN  IF identifier \in DOMAIN signals
               THEN StoreChange(identifier, ValueOf(l))
               ELSE UNCHANGED <<signals, changes>>
        /\ UNCHANGED <<pcParse, in_header, current_time, timescale, scope_hierarchy>>

ParseVector ==
    \E raw \in ReadLines :
        /\ Consume(raw, "vector")
        /\ LET l == Strip(raw)
               parts == Split(l)
           IN  IF Len(parts) >= 2 /\ ValueIdent(l) \in DOMAIN signals
               THEN StoreChange(ValueIdent(l), ValueOf(l))
               ELSE UNCHANGED <<signals, changes>>
        /\ UNCHANGED <<pcParse, in_header, current_time, timescale, scope_hierarchy>>

ParseOther ==
    \E raw \in ReadLines :
        /\ Consume(raw, "other")
        /\ UNCHANGED <<pcParse, in_header, current_time, timescale, signals,
                       changes, scope_hierarchy>>

\* end of input: return self.signals, self.changes
ParseReturn ==
    /\ pcParse = "loop"
    /\ trace.kind = "file" => nLines = Len(trace.lines)
    /\ pcParse' = "returned"
    /\ returns' = Append(returns, Returned(signals, changes, TRUE))
    /\ UNCHANGED <<in_header, current_time, timescale, signals, changes,
                   scope_hierarchy, line, nLines, trace>>
    /\ UNCHANGED nonVcdVars

NextVCD ==
    \/ ParseNoFile
    \/ ParseOpen
    \/ ParseBlank
    \/ ParseTimescale
    \/ ParseScope
    \/ ParseUpscope
    \/ ParseVar
    \/ ParseEndDefinitions
    \/ ParseTimeMarker
    \/ ParseScalar
    \/ ParseVector
    \/ ParseOther
    \/ ParseReturn

\* no lookup is under way
QueryIdle ==
    /\ qPc = "idle"
    /\ qValues = <<>>
    /\ qTime = 0
    /\ qResult = <<>>

InitVCD == VCDInit /\ QueryIdle /\ AppInit /\ CallIdle

SpecVCD == InitVCD /\ [][NextVCD]_vars

-----------------------------------------------------------------------------
(* Several calls of parse on one VCDParser instance *)

\* the files the calls are made on: a missing one (os.path.exists is
\* false) and files with the given lines
Traces ==
    LET TraceFile(lines) == [kind |-> "file", lines |-> lines] IN
    { [kind |-> "missing", lines |-> <<>>],
      TraceFile(<<>>),
      TraceFile(<< <<"$var", SP, "wire", SP, "1", SP, "!", SP, "a", SP, "$end">>,
                   <<"$enddefinitions", SP, "$end">>,
                   <<SP, "0", "!", "\n">> >>),
      TraceFile(<< <<"$scope", SP, "module", SP, "uut", SP, "$end">>,
                   <<"$var", SP, "wire", SP, "2", SP, "!", SP, "d", SP, "$end">>,
                   <<"$enddefinitions", SP, "$end">>,
                   <<"#", "5">>,
                   <<"1", "!">>,
                   <<"b", "1", "0", SP, "!">> >>),
      TraceFile(<< <<"$timescale", SP, "1", "ps", SP, "$end", "\n">>,
                   <<"\n">>,
                   <<"$upscope", SP, "$end">>,
                   <<"$dumpvars">> >>) }

\* parse is called once more on the same instance: the fields of self stay
\* as the calls before left them
ParseAgain ==
    /\ pcParse = "returned"
    /\ Len(returns) < MaxCalls
    /\ \E t \in Traces : trace' = t
    /\ pcParse' = "init"
    /\ in_header' = TRUE
    /\ current_time' = 0
    /\ line' = <<>>
    /\ nLines' = 0
    /\ UNCHANGED <<timescale, signals, changes, scope_hierarchy, returns>>
    /\ UNCHANGED nonVcdVars

InitReparse == ParserInit /\ trace \in Traces /\ QueryIdle /\ AppInit /\ CallIdle

SpecReparse ==
    /\ InitReparse
    /\ [][ \/ NextVCD
           \/ ParseAgain ]_vars

-----------------------------------------------------------------------------
(* Point-in-time lookup *)

\* the for loop over signal['values']: value is the running result, the loop
\* breaks at the first change later than time
RECURSIVE ScanValues(_, _, _, _)
ScanValues(values, i, value, time) ==
    IF i > Len(values) THEN value
    ELSE IF values[i][1] <= time THEN ScanValues(values, i + 1, values[i][2], time)
    ELSE value

\* WaveformWidget.get_value_at_time
get_value_at_time(values, time) ==
    IF values = <<>> THEN <<"X">>
    ELSE ScanValues(values, 1, values[1][2], time)

\* AWaveViewer.get_signal_value_at_time
get_signal_value_at_time(values, time) ==
    IF values = <<>> THEN <<"X">>
    ELSE ScanValues(values, 1, values[1][2], time)

\* change lists as a parse of a well-formed trace leaves them: timestamps
\* non-decreasing
ChangeLists ==
    LET Change == (0..MaxTime) \X {<<"0">>, <<"1">>, <<"x">>} IN
    { vs \in UNION { [1..n -> Change] : n \in 0..MaxChanges } :
          \A i \in 1..Len(vs) - 1 : vs[i][1] <= vs[i + 1][1] }

QueryInit ==
    /\ qPc = "ready"
    /\ qValues \in ChangeLists
    /\ qTime \in -1..(MaxTime + 1)
    /\ qResult = <<>>

\* the waveform widget looks the value up (tooltip, painting)
WidgetLookup ==
    /\ qPc = "ready"
    /\ qResult' = get_value_at_time(qValues, qTime)
    /\ qPc' = "done"
    /\ UNCHANGED <<qValues, qTime>>
    /\ UNCHANGED <<vcdVars, appVars, callVars>>

\* the logic analysis looks the value up
AnalysisLookup ==
    /\ qPc = "ready"
    /\ qResult' = get_signal_value_at_time(qValues, qTime)
    /\ qPc' = "done"
    /\ UNCHANGED <<qValues, qTime>>
    /\ UNCHANGED <<vcdVars, appVars, callVars>>

InitQuery == VCDInit /\ QueryInit /\ AppInit /\ CallIdle

SpecQuery ==
    /\ InitQuery
    /\ [][ \/ WidgetLookup
           \/ AnalysisLookup ]_vars

-----------------------------------------------------------------------------
(* Verilog text.  Words (identifiers, keywords, digits) are symbols; two    *)
(* adjacent word symbols form one longer word ("m" "_tb" is m_tb).          *)
(* Everything that is not a word character is listed in NonWord.            *)

EOT == "<eot>"    \* stands for "no character": before the start, after the end

NonWord == {EOT, " ", "\n", "(", ")", "[", "]", ";", ",", ":", "=", ".", "#", "$",
            "~", "%", "<", "+", "-", "@", "*", "'", "/", "//", "/*", "*/",
            "<dq>", "<bt>"}    \* the double quote and the backtick

IsWord(c) == c \notin NonWord

\* the symbol at position i, EOT beyond either end of the text
At(s, i) == IF i >= 1 /\ i <= Len(s) THEN s[i] ELSE EOT

\* len(re.findall(r'\bkw\b', s)) for the keywords kws
CountWords(s, kws) ==
    LET
        \* regex \bkw\b at position i
        WordAt(str, i, kw) == str[i] = kw /\ ~IsWord(At(str, i - 1)) /\ ~IsWord(At(str, i + 1))
    IN
    Cardinality({i \in 1..Len(s) : \E kw \in kws : WordAt(s, i, kw)})

\* end (exclusive) of the run of symbols satisfying the class test, from i
RECURSIVE WordRunEnd(_, _)
WordRunEnd(s, i) == IF i <= Len(s) /\ IsWord(s[i]) THEN WordRunEnd(s, i + 1) ELSE i

SpaceRunEnd(s, i) == RunEnd(s, i, Whitespace)

\* a local variable: Body with its parameter bound to the value v
Bind(v, Body(_)) == Body(v)

\* the least element of a non-empty set of positions
MinOf(S) == CHOOSE x \in S : \A y \in S : x <= y

\* index of the first symbol c of s at or after i, 0 when there is none
IndexFrom(s, i, c) ==
    LET hits == {k \in i..Len(s) : s[k] = c} IN
    IF hits = {} THEN 0 ELSE MinOf(hits)

\* re.sub(r'//.*?$', '', code, flags=re.MULTILINE): each "//" is removed
\* together with the rest of its line
RECURSIVE RemoveLineComments(_)
RemoveLineComments(s) ==
    Bind(IndexFrom(s, 1, "//"), LAMBDA a :
    Bind(IF a = 0 THEN 0 ELSE IndexFrom(s, a + 1, "\n"), LAMBDA n :
        IF a = 0 THEN s
        ELSE IF n = 0 THEN SubSeq(s, 1, a - 1)
        ELSE SubSeq(s, 1, a - 1) \o RemoveLineComments(SubSeq(s, n, Len(s)))))

\* re.sub(r'/\*.*?\*/', '', code, flags=re.DOTALL)
RECURSIVE RemoveBlockComments(_)
RemoveBlockComments(s) ==
    Bind(IndexFrom(s, 1, "/*"), LAMBDA a :
    Bind(IF a = 0 THEN 0 ELSE IndexFrom(s, a + 1, "*/"), LAMBDA b :
        IF b = 0 THEN s
        ELSE SubSeq(s, 1, a - 1) \o RemoveBlockComments(SubSeq(s, b + 1, Len(s)))))

\* VerilogSyntaxChecker._remove_comments
RemoveComments(code) == RemoveBlockComments(RemoveLineComments(code))

\* code.split('\n')
SplitLines(s) ==
    LET
        \* the positions of S, all within lo..hi, in increasing order
        RECURSIVE Ordered(_, _, _)
        Ordered(S, lo, hi) ==
            IF S = {} THEN <<>>
            ELSE IF lo = hi THEN <<lo>>
            ELSE Bind((lo + hi) \div 2, LAMBDA mid :
                 Ordered({x \in S : x <= mid}, lo, mid)
              \o Ordered({x \in S : x > mid}, mid + 1, hi))
    IN
    \* the cuts: before the text, every line break, after the text
    Bind(Ordered({0, Len(s) + 1} \cup {k \in 1..Len(s) : s[k] = "\n"}, 0, Len(s) + 1),
         LAMBDA cuts :
        [i \in 1..(Len(cuts) - 1) |-> SubSeq(s, cuts[i] + 1, cuts[i + 1] - 1)] \o <<>>)

-----------------------------------------------------------------------------
(* VerilogSyntaxChecker.check_syntax *)

Msg(sev, text, n1, n2) == [sev |-> sev, text |-> text, n1 |-> n1, n2 |-> n2]

\* Check 2: len(re.findall(r'\bmodule\s+', code))
ModuleCount(code) ==
    Cardinality({i \in 1..Len(code) :
        code[i] = "module" /\ ~IsWord(At(code, i - 1)) /\ i < Len(code)
        /\ code[i + 1] \in Whitespace})

\* Checks 7 and 8, the outer loop over code.split('\n'): todo holds the
\* numbers of the lines still to scan that contain an opening or a closing
\* symbol (the other lines leave the balance and the errors as they are).
\* st is [bal, errs].
RECURSIVE BalanceScan(_, _, _, _, _, _)
BalanceScan(lines, todo, open, close, what, st) ==
    LET
        \* Checks 7 and 8, the inner loop "for char in line" entered with balance
        \* bal: the balance after the line and whether the loop was left by the
        \* break, which happens at the first closing symbol that makes it negative
        BalanceLine(l, bal) ==
            LET
                \* opening minus closing symbols among the first k symbols of the line
                PrefixBalance(k) ==
                    Cardinality({i \in 1..k : l[i] = open}) - Cardinality({i \in 1..k : l[i] = close})
            IN
            Bind({k \in 1..Len(l) : l[k] = close /\ bal + PrefixBalance(k) < 0},
                 LAMBDA breaks :
                IF breaks = {}
                THEN [bal |-> bal + PrefixBalance(Len(l)), broke |-> FALSE]
                ELSE [bal |-> bal + PrefixBalance(MinOf(breaks)), broke |-> TRUE])
    IN
    IF todo = {} THEN st
    ELSE Bind(MinOf(todo), LAMBDA n :
         Bind(BalanceLine(lines[n], st.bal), LAMBDA r :
         BalanceScan(lines, todo \ {n}, open, close, what,
            [bal |-> r.bal,
             errs |-> IF r.broke THEN Append(st.errs, Msg("ERROR", what, n, 0))
                      ELSE st.errs])))

PortKeywords == {"input", "output", "inout"}

IsEmptyModule(code) ==
    LET
        \* re.search(r'\w+\s+\w+\s*\(', s): word, blanks, word, optional blanks, "("
        HasCallPattern(s) ==
            \E i \in 1..Len(s) :
                /\ IsWord(s[i])
                /\ At(s, i + 1) \in Whitespace
                /\ LET j == SpaceRunEnd(s, i + 1)
                       k == WordRunEnd(s, j)
                       l == SpaceRunEnd(s, k)
                   IN  k > j /\ l <= Len(s) /\ s[l] = "("
        \* Check 12: re.search(r'module\s+\w+.*?endmodule', code, re.DOTALL), the
        \* matched text, <<>> when there is no match
        ModuleContent(text) ==
            LET starts == {i \in 1..Len(text) :
                              /\ text[i] \in {"module", "endmodule"}
                              /\ At(text, i + 1) \in Whitespace
                              /\ IsWord(At(text, SpaceRunEnd(text, i + 1)))
                              /\ IndexFrom(text, SpaceRunEnd(text, i + 1) + 1, "endmodule") # 0}
            IN  IF starts = {} THEN <<>>
                ELSE LET i == MinOf(starts)
                         j == IndexFrom(text, SpaceRunEnd(text, i + 1) + 1, "endmodule")
                     IN  SubSeq(text, i, j)
    IN
    LET content == ModuleContent(code) IN
    /\ content # <<>>
    /\ ~\E i \in 1..Len(content) : content[i] \in PortKeywords
    /\ ~\E i \in 1..Len(content) : content[i] \in {"always", "assign", "initial"}
    /\ ~HasCallPattern(content)

\* Check 13: the lines that might be missing a semicolon
MissingSemicolonWarnings(code) ==
    LET
        DeclKeywords == {"input", "output", "inout", "wire", "reg", "parameter",
                         "assign", "integer", "real"}
    IN
    Bind(SplitLines(code), LAMBDA lines :
    LET Suspect(i) ==
            LET l == Strip(lines[i]) IN
            /\ l # <<>>
            /\ l[1] # "//"
            /\ l[1] \in DeclKeywords /\ At(l, 2) \in Whitespace
            /\ l[Len(l)] \notin {";", ",", ")", "(", "begin", "end"}
            /\ i < Len(lines)
            /\ LET n == Strip(lines[i + 1]) IN ~(n # <<>> /\ n[1] \in {")", ","})
    IN
    \* one warning per suspect line, in the order of the lines
    Bind({i \in 1..Len(lines) : Suspect(i)}, LAMBDA suspects :
        [k \in 1..Cardinality(suspects) |->
            Msg("WARNING", "missing semicolon",
                CHOOSE i \in suspects : Cardinality({j \in suspects : j < i}) = k - 1, 0)]))

Cond(b, msg) == IF b THEN <<msg>> ELSE <<>>

\* the list errors of check_syntax
SyntaxErrors(code) ==
    LET
        \* Check 1: re.search(r'\bmodule\s+\w+', code)
        HasModuleDecl(text) ==
            \E i \in 1..Len(text) :
                /\ text[i] = "module"
                /\ ~IsWord(At(text, i - 1))
                /\ At(text, i + 1) \in Whitespace
                /\ IsWord(At(text, SpaceRunEnd(text, i + 1)))
        BalanceErrors(text, open, close, unmatched, unclosed) ==
            Bind(SplitLines(text), LAMBDA lines :
            Bind(BalanceScan(lines,
                             {n \in 1..Len(lines) :
                                 \E k \in 1..Len(lines[n]) : lines[n][k] \in {open, close}},
                             open, close, unmatched, [bal |-> 0, errs |-> <<>>]), LAMBDA st :
                st.errs \o (IF st.bal > 0 THEN <<Msg("ERROR", unclosed, st.bal, 0)>> ELSE <<>>)))
    IN
    LET mc == ModuleCount(code)
        ec == CountWords(code, {"endmodule"})
        cc == CountWords(code, {"case", "casex", "casez"})
        ecc == CountWords(code, {"endcase"})
    IN  Cond(~HasModuleDecl(code), Msg("ERROR", "No module declaration found", 0, 0))
     \o Cond(mc # ec, Msg("ERROR", "Module/endmodule mismatch", mc, ec))
     \o Cond(cc # ecc, Msg("ERROR", "Case/endcase mismatch", cc, ecc))
     \o Cond(CountWords(code, {"function"}) # CountWords(code, {"endfunction"}),
             Msg("ERROR", "Function/endfunction mismatch", 0, 0))
     \o Cond(CountWords(code, {"task"}) # CountWords(code, {"endtask"}),
             Msg("ERROR", "Task/endtask mismatch", 0, 0))
     \o BalanceErrors(code, "(", ")", "Unmatched closing parenthesis at line",
                      "unclosed parenthesis/parentheses")
     \o BalanceErrors(code, "[", "]", "Unmatched closing bracket at line",
                      "unclosed bracket(s)")

\* the list warnings of check_syntax
SyntaxWarnings(code) ==
    LET
        \* Check 9: re.findall(r'(input|output|inout)\s+[^\w\s\[\]]+', code)
        HasInvalidPorts(text) ==
            \E i \in 1..Len(text) :
                /\ text[i] \in PortKeywords
                /\ At(text, i + 1) \in Whitespace
                /\ LET j == SpaceRunEnd(text, i + 1) IN
                   j <= Len(text) /\ ~IsWord(text[j]) /\ text[j] \notin {"[", "]"}
    IN
    LET bc == CountWords(code, {"begin"})
        ec == CountWords(code, {"end"})
        mc == ModuleCount(code)
    IN  Cond(bc # ec, Msg("WARNING", "Begin/end mismatch", bc, ec))
     \o Cond(HasInvalidPorts(code),
             Msg("WARNING", "Potentially invalid port declarations found", 0, 0))
     \o Cond(mc > 1, Msg("INFO", "Multiple modules found", mc, 0))
     \o Cond(IsEmptyModule(code), Msg("WARNING", "Module appears to be empty", 0, 0))
     \o MissingSemicolonWarnings(code)

\* check_syntax(verilog_code) -> (is_valid, all_messages)
\* slip: validity is taken from the combined list
check_syntax_AnyMessage(verilog_code) ==
    Bind(RemoveComments(verilog_code), LAMBDA code :
    Bind(SyntaxErrors(code), LAMBDA errors :
        [is_valid |-> Len(errors \o SyntaxWarnings(code)) = 0,
         messages |-> errors \o SyntaxWarnings(code)]))

check_syntax(verilog_code) ==
    Bind(RemoveComments(verilog_code), LAMBDA code :
    Bind(SyntaxErrors(code), LAMBDA errors :
        [is_valid |-> Len(errors) = 0, messages |-> errors \o SyntaxWarnings(code)]))

-----------------------------------------------------------------------------
(* VerilogParser.parse_module *)

NoMatch == [ok |-> FALSE]

\* re.search(r'module\s+(\w+)', code): the captured name, <<>> without a match
ModuleNameOf(code) ==
    LET starts == {i \in 1..Len(code) :
                      /\ code[i] \in {"module", "endmodule"}
                      /\ At(code, i + 1) \in Whitespace
                      /\ IsWord(At(code, SpaceRunEnd(code, i + 1)))}
    IN  IF starts = {} THEN <<>>
        ELSE LET i == MinOf(starts)
                 j == SpaceRunEnd(code, i + 1)
             IN  SubSeq(code, j, WordRunEnd(code, j) - 1)

\* the optional range followed by the name, from position j
RangeAndNameAt(code, j, terms) ==
    LET
        \* (?:\[(\d+):(\d+)\]\s+)? at position j
        RangeAt(text, from) ==
            LET m1 == RunEnd(text, from + 1, Digits)
                m2 == RunEnd(text, m1 + 1, Digits)
                e  == SpaceRunEnd(text, m2 + 1)
            IN  IF /\ At(text, from) = "["
                   /\ m1 > from + 1 /\ At(text, m1) = ":"
                   /\ m2 > m1 + 1 /\ At(text, m2) = "]"
                   /\ e > m2 + 1
                THEN [ok |-> TRUE, msb |-> SubSeq(text, from + 1, m1 - 1),
                      lsb |-> SubSeq(text, m1 + 1, m2 - 1), end |-> e]
                ELSE NoMatch
        \* (\w+)\s*[terms] at position k
        NameAt(text, k, ts) ==
            LET e == WordRunEnd(text, k)
                t == SpaceRunEnd(text, e)
            IN  IF e > k /\ t <= Len(text) /\ text[t] \in ts
                THEN [ok |-> TRUE, name |-> SubSeq(text, k, e - 1), end |-> t]
                ELSE NoMatch
    IN
    Bind(RangeAt(code, j), LAMBDA r :
    Bind(IF r.ok THEN NameAt(code, r.end, terms) ELSE NoMatch, LAMBDA n :
    Bind(NameAt(code, j, terms), LAMBDA m :
        IF r.ok /\ n.ok
        THEN [ok |-> TRUE, ranged |-> TRUE, msb |-> r.msb, lsb |-> r.lsb,
              name |-> n.name, end |-> n.end]
        ELSE IF m.ok
        THEN [ok |-> TRUE, ranged |-> FALSE, msb |-> <<>>, lsb |-> <<>>,
              name |-> m.name, end |-> m.end]
        ELSE NoMatch)))

RECURSIVE FirstOk(_, _, _)
FirstOk(code, starts, terms) ==
    IF starts = <<>> THEN NoMatch
    ELSE Bind(RangeAndNameAt(code, starts[1], terms), LAMBDA m :
         IF m.ok THEN m ELSE FirstOk(code, Tail(starts), terms))

\* one declaration pattern  kw\s+<qual><range>(\w+)\s*[terms]  tried at i
DeclAt(code, i, kw, qual, terms) ==
    LET
        \* the positions the rest of a declaration pattern may start at after the
        \* keyword's blanks at j, in the order the regex tries them:
        \*   "wire" : (?:wire\s+)?       "regwire" : (?:reg|wire\s+)?      "" : nothing
        QualifierEnds(text, j, q) ==
            (IF q = "regwire" /\ At(text, j) = "reg" THEN <<j + 1>> ELSE <<>>)
         \o (IF q \in {"wire", "regwire"} /\ At(text, j) = "wire"
                /\ At(text, j + 1) \in Whitespace
             THEN <<SpaceRunEnd(text, j + 1)>> ELSE <<>>)
         \o <<j>>
    IN
    IF code[i] = kw /\ At(code, i + 1) \in Whitespace
    THEN FirstOk(code, QualifierEnds(code, SpaceRunEnd(code, i + 1), qual), terms)
    ELSE NoMatch

\* re.finditer(pattern, code): the matches from left to right, not overlapping
RECURSIVE DeclMatches(_, _, _, _, _)
DeclMatches(code, i, kw, qual, terms) ==
    Bind({k \in i..Len(code) : DeclAt(code, k, kw, qual, terms).ok}, LAMBDA found :
        IF found = {} THEN <<>>
        ELSE Bind(DeclAt(code, MinOf(found), kw, qual, terms), LAMBDA m :
             <<m>> \o DeclMatches(code, m.end + 1, kw, qual, terms)))

NamesOf(list) == {list[i].name : i \in 1..Len(list)}

\* the loop over the matches of one port pattern
RECURSIVE AddPorts(_, _)
AddPorts(ms, acc) ==
    IF ms = <<>> THEN acc
    ELSE Bind(ms[1], LAMBDA m :
         AddPorts(Tail(ms),
            IF m.name \in NamesOf(acc) THEN acc
            ELSE IF m.ranged
            THEN Append(acc, [name |-> m.name,
                              width |-> IntOf(m.msb) - IntOf(m.lsb) + 1,
                              msb |-> IntOf(m.msb), lsb |-> IntOf(m.lsb)])
            ELSE Append(acc, [name |-> m.name, width |-> 1, msb |-> 0, lsb |-> 0])))

\* the loop over the matches of the wire or reg pattern
RECURSIVE AddSignals(_, _, _)
AddSignals(ms, taken, acc) ==
    IF ms = <<>> THEN acc
    ELSE Bind(ms[1], LAMBDA m :
         AddSignals(Tail(ms), taken,
            IF m.name \in taken \cup NamesOf(acc) THEN acc
            ELSE IF m.ranged
            THEN Append(acc, [name |-> m.name,
                              width |-> IntOf(m.msb) - IntOf(m.lsb) + 1])
            ELSE Append(acc, [name |-> m.name, width |-> 1])))

\* end (exclusive) of the run of symbols outside set, from i
RECURSIVE RunEndNot(_, _, _)
RunEndNot(s, i, set) ==
    IF i <= Len(s) /\ s[i] \notin set THEN RunEndNot(s, i + 1, set) ELSE i

\* parameter\s+(?:\[.*?\]\s+)?(\w+)\s*=\s*([^;,]+) tried at i: the lazy
\* bracket group stops at the first "]" of the line after which the rest
\* matches, and is left out when there is none
ParamAt(code, i) ==
    LET
        \* (\w+)\s*=\s*([^;,]+) at position k
        ParamRestAt(text, k) ==
            LET e == WordRunEnd(text, k)
                q == SpaceRunEnd(text, e)
                x == RunEndNot(text, q + 1, {";", ","})
            IN  IF e > k /\ q <= Len(text) /\ text[q] = "=" /\ x > q + 1
                THEN [ok |-> TRUE, name |-> SubSeq(text, k, e - 1),
                      value |-> Strip(SubSeq(text, q + 1, x - 1)), end |-> x - 1]
                ELSE NoMatch
    IN
    LET j == SpaceRunEnd(code, i + 1)
        eol == LET n == IndexFrom(code, j, "\n") IN IF n = 0 THEN Len(code) + 1 ELSE n
        closers == {b \in (j + 1)..(eol - 1) :
                       /\ code[b] = "]"
                       /\ At(code, b + 1) \in Whitespace
                       /\ ParamRestAt(code, SpaceRunEnd(code, b + 1)).ok}
    IN  IF code[i] = "parameter" /\ At(code, i + 1) \in Whitespace
        THEN IF At(code, j) = "[" /\ closers # {}
             THEN ParamRestAt(code, SpaceRunEnd(code,
                      MinOf(closers) + 1))
             ELSE ParamRestAt(code, j)
        ELSE NoMatch

RECURSIVE ParamMatches(_, _)
ParamMatches(code, i) ==
    Bind({k \in i..Len(code) : ParamAt(code, k).ok}, LAMBDA found :
        IF found = {} THEN <<>>
        ELSE Bind(ParamAt(code, MinOf(found)), LAMBDA m :
             <<[name |-> m.name, value |-> m.value]>> \o ParamMatches(code, m.end + 1)))

\* VerilogParser.parse_module(verilog_code)
parse_module(verilog_code) ==
    Bind(RemoveBlockComments(RemoveLineComments(verilog_code)), LAMBDA code :
    Bind(AddPorts(DeclMatches(code, 1, "input", "wire", {",", ";", ")"}), <<>>),
         LAMBDA inputs :
    Bind(AddPorts(DeclMatches(code, 1, "output", "regwire", {",", ";", ")"}), <<>>),
         LAMBDA outputs :
        [name |-> ModuleNameOf(verilog_code),
         inputs |-> inputs,
         outputs |-> outputs,
         inouts |-> AddPorts(DeclMatches(code, 1, "inout", "", {",", ";", ")"}), <<>>),
         parameters |-> ParamMatches(verilog_code, 1),
         regs |-> AddSignals(DeclMatches(code, 1, "reg", "", {",", ";"}),
                             NamesOf(outputs), <<>>),
         wires |-> AddSignals(DeclMatches(code, 1, "wire", "", {",", ";"}),
                              NamesOf(inputs) \cup NamesOf(outputs), <<>>)])))

-----------------------------------------------------------------------------
(* TestbenchGenerator.generate_testbench *)

\* str(n) for an integer n
RECURSIVE NatStr(_)
NatStr(n) ==
    LET d == <<"0", "1", "2", "3", "4", "5", "6", "7", "8", "9">>[(n % 10) + 1] IN
    IF n < 10 THEN <<d>> ELSE NatStr(n \div 10) \o <<d>>

IntStr(n) == IF n < 0 THEN <<"-">> \o NatStr(0 - n) ELSE NatStr(n)

\* ''.join(f(x) for x in list)
RECURSIVE ConcatMap(_, _)
ConcatMap(F(_), list) ==
    IF list = <<>> THEN <<>> ELSE F(list[1]) \o ConcatMap(F, Tail(list))

\* sep.join(f(x) for x in list)
RECURSIVE JoinMap(_, _, _)
JoinMap(F(_), sep, list) ==
    IF list = <<>> THEN <<>>
    ELSE IF Len(list) = 1 THEN F(list[1])
    ELSE F(list[1]) \o sep \o JoinMap(F, sep, Tail(list))

\* 'clk' in name.lower() or 'clock' in name.lower()
IsClockName(name) == \E i \in 1..Len(name) : name[i] \in {"clk", "CLK", "clock", "Clock"}

\* 'rst' in name.lower() or 'reset' in name.lower()
IsResetName(name) == \E i \in 1..Len(name) : name[i] \in {"rst", "RST", "reset", "Reset"}

\* [x for x in list if test(x)]
RECURSIVE Filter(_, _)
Filter(Test(_), list) ==
    IF list = <<>> THEN <<>>
    ELSE (IF Test(list[1]) THEN <<list[1]>> ELSE <<>>) \o Filter(Test, Tail(list))

\* a port of a ModuleInfo that extract_module_info_from_testbench built (its
\* width is a string and it has no msb / lsb)
HasStrWidth(p) == "type" \in DOMAIN p

\* generate_testbench raises: the comparison  p['width'] > 1  of a string
\* with an integer is a TypeError
GenerateRaises(info) ==
    LET ports == info.inputs \o info.outputs \o info.inouts IN
    \E i \in 1..Len(ports) : HasStrWidth(ports[i])

TbHeader(module_name) ==
    <<"//", " ", "Automatic", " ", "Testbench", " ", "for", " ">> \o module_name \o <<"\n">>
 \o <<"//", " ", "Generated", " ", "by", " ", "AWaveViewer", "\n", "//", "\n", "//", " ",
         "IMPORTANT", ":", " ", "When", " ", "using", " ", "this", " ", "testbench", ":", "\n">>
 \o <<"//", " ", "1", ".", " ", "Save", " ", "this", " ", "as", " ", "a", " ", "SEPARATE",
         " ", "file", " ", "(", "e", ".", "g", ".", ",", " ">> \o module_name \o <<"_tb", ".", "v", ")", "\n">>
 \o <<"//", " ", "2", ".", " ", "Keep", " ", "your", " ", "module", " ", "in", " ",
         "another", " ", "file", " ", "(", "e", ".", "g", ".", ",", " ">> \o module_name \o <<".", "v", ")", "\n">>
 \o <<"//", " ", "3", ".", " ", "Compile", " ", "both", ":", " ", "iverilog", " ", "-", "o",
         " ", "sim", " ">> \o module_name \o <<".", "v", " ">> \o module_name \o <<"_tb", ".", "v", "\n">>
 \o <<"//", "\n", "//", " ", "OR", " ", "if", " ", "combining", " ", "in", " ", "one", " ",
         "file", ",", " ", "put", " ", "the", " ", "MODULE", " ", "DEFINITION", " ", "FIRST",
         ",", "\n">>
 \o <<"//", " ", "then", " ", "the", " ", "TESTBENCH", " ", "second", " ", "(", "module",
         " ", "must", " ", "be", " ", "defined", " ", "before", " ", "use", ")", "\n", "//",
         "\n">>
 \o <<"<bt>", "timescale", " ", "1ns", "/", "1ps", "\n", "\n", "module", " ">> \o module_name \o <<"_tb", ";", "\n", "\n", " ", " ", " ", " ", "//", " ", "Parameters", "\n">>

TbDecl(kind, p) ==
    IF p.width > 1
    THEN <<" ", " ", " ", " ">> \o kind \o <<" ", "[">> \o IntStr(p.msb) \o <<":">> \o IntStr(p.lsb) \o <<"]", " ">> \o p.name \o <<";", "\n">>
    ELSE <<" ", " ", " ", " ">> \o kind \o <<" ">> \o p.name \o <<";", "\n">>

\* slip: the inout ports are not connected
TbInstance_NoInouts(info) ==
    LET
        TbConnection(p) == <<" ", " ", " ", " ", " ", " ", " ", " ", ".">> \o p.name \o <<"(">> \o p.name \o <<")">>
    IN
    <<"\n", " ", " ", " ", " ", "//", " ", "Instantiate", " ", "the", " ", "Unit", " ",
         "Under", " ", "Test", " ", "(", "UUT", ")", "\n">>
 \o <<" ", " ", " ", " ">> \o info.name \o <<" ">>
 \o (IF info.parameters # <<>>
     THEN <<"#", "(", "\n">> \o JoinMap(TbConnection, <<",", "\n">>, info.parameters) \o <<"\n", " ", " ", " ", " ", ")", " ">>
     ELSE <<>>)
 \o <<"uut", " ", "(", "\n">>
 \o JoinMap(TbConnection, <<",", "\n">>, info.inputs \o info.outputs)
 \o <<"\n", " ", " ", " ", " ", ")", ";", "\n", "\n">>

TbInstance(info) ==
    LET
        TbConnection(p) == <<" ", " ", " ", " ", " ", " ", " ", " ", ".">> \o p.name \o <<"(">> \o p.name \o <<")">>
    IN
    <<"\n", " ", " ", " ", " ", "//", " ", "Instantiate", " ", "the", " ", "Unit", " ",
         "Under", " ", "Test", " ", "(", "UUT", ")", "\n">>
 \o <<" ", " ", " ", " ">> \o info.name \o <<" ">>
 \o (IF info.parameters # <<>>
     THEN <<"#", "(", "\n">> \o JoinMap(TbConnection, <<",", "\n">>, info.parameters) \o <<"\n", " ", " ", " ", " ", ")", " ">>
     ELSE <<>>)
 \o <<"uut", " ", "(", "\n">>
 \o JoinMap(TbConnection, <<",", "\n">>,
            info.inputs \o info.outputs \o info.inouts)
 \o <<"\n", " ", " ", " ", " ", ")", ";", "\n", "\n">>

ClockInputs(info) ==
    LET IsClk(p) == IsClockName(p.name) IN Filter(IsClk, info.inputs)

ResetInputs(info) ==
    LET IsRst(p) == IsResetName(p.name) IN Filter(IsRst, info.inputs)

TbClock(info) ==
    LET cs == ClockInputs(info) IN
    IF cs = <<>> THEN <<>>
    ELSE <<" ", " ", " ", " ", "//", " ", "Clock", " ", "generation", "\n", " ", " ", " ", " ",
         "initial", " ", "begin", "\n", " ", " ", " ", " ", " ", " ", " ", " ">> \o cs[1].name \o <<" ", "=", " ", "0", ";", "\n">>
      \o <<" ", " ", " ", " ", " ", " ", " ", " ", "forever", " ", "#", "5", " ">> \o cs[1].name \o <<" ", "=", " ", "~">> \o cs[1].name
      \o <<";", " ", " ", "//", " ", "100MHz", " ", "clock", "\n", " ", " ", " ", " ", "end",
         "\n">>

TbReset(info) ==
    LET rs == ResetInputs(info) IN
    IF rs = <<>> THEN <<>>
    ELSE <<"\n", " ", " ", " ", " ", "//", " ", "Reset", " ", "generation", "\n", " ", " ", " ",
         " ", "initial", " ", "begin", "\n", " ", " ", " ", " ", " ", " ", " ", " ">> \o rs[1].name \o <<" ", "=", " ", "1", ";", "\n">>
      \o <<" ", " ", " ", " ", " ", " ", " ", " ", "#", "20", " ">> \o rs[1].name \o <<" ", "=", " ", "0", ";", "\n">>
      \o <<" ", " ", " ", " ", " ", " ", " ", " ", "#", "10", " ">> \o rs[1].name \o <<" ", "=", " ", "1", ";", "\n", " ", " ", " ", " ", "end", "\n">>

TbStimulus(info, test_vectors) ==
    LET
        \* the inputs that are neither a clock nor a reset input
        StimulusInputs(mi) ==
            LET special == NamesOf(ClockInputs(mi) \o ResetInputs(mi))
                Plain(p) == p.name \notin special
            IN  Filter(Plain, mi.inputs)
        TbZero(p) == <<" ", " ", " ", " ", " ", " ", " ", " ">> \o p.name \o <<" ", "=", " ", "0", ";", "\n">>
        TbRandom(p) ==
            IF p.width > 1
            THEN <<" ", " ", " ", " ", " ", " ", " ", " ", " ", " ", " ", " ">> \o p.name \o <<" ", "=", " ", "$", "random", " ", "%", " ", "(", "1", " ", "<", "<", " ">> \o IntStr(p.width) \o <<")", ";", "\n">>
            ELSE <<" ", " ", " ", " ", " ", " ", " ", " ", " ", " ", " ", " ">> \o p.name \o <<" ", "=", " ", "$", "random", " ", "%", " ", "2", ";", "\n">>
    IN
    <<"\n", " ", " ", " ", " ", "//", " ", "Test", " ", "stimulus", "\n", " ", " ", " ", " ",
         "integer", " ", "i", ";", "\n", " ", " ", " ", " ", "initial", " ", "begin", "\n", " ",
         " ", " ", " ", " ", " ", " ", " ", "//", " ", "Initialize", " ", "inputs", "\n">>
 \o ConcatMap(TbZero, StimulusInputs(info))
 \o <<"\n", " ", " ", " ", " ", " ", " ", " ", " ", "//", " ", "Wait", " ", "for", " ",
         "reset", "\n", " ", " ", " ", " ", " ", " ", " ", " ", "#", "50", ";", "\n", " ", " ",
         " ", " ", " ", " ", " ", " ", "\n", " ", " ", " ", " ", " ", " ", " ", " ", "//", " ",
         "Apply", " ", "test", " ", "vectors", "\n">>
 \o <<" ", " ", " ", " ", " ", " ", " ", " ", "for", " ", "(", "i", " ", "=", " ", "0", ";",
         " ", "i", " ", "<", " ">> \o IntStr(test_vectors) \o <<";", " ", "i", " ", "=", " ", "i", " ", "+", " ", "1", ")", " ", "begin", "\n">>
 \o ConcatMap(TbRandom, StimulusInputs(info))
 \o <<" ", " ", " ", " ", " ", " ", " ", " ", " ", " ", " ", " ", "#", "10", ";", "\n", " ",
         " ", " ", " ", " ", " ", " ", " ", "end", "\n", " ", " ", " ", " ", " ", " ", " ", " ",
         "\n", " ", " ", " ", " ", " ", " ", " ", " ", "//", " ", "Finish", " ", "simulation",
         "\n", " ", " ", " ", " ", " ", " ", " ", " ", "#", "100", ";", "\n">>
 \o <<" ", " ", " ", " ", " ", " ", " ", " ", "$", "display", "(", "<dq>", "Simulation", " ",
         "completed", " ", "successfully", "<dq>", ")", ";", "\n", " ", " ", " ", " ", " ", " ",
         " ", " ", "$", "finish", ";", "\n", " ", " ", " ", " ", "end", "\n">>

TbMonitor(info) ==
    LET
        TbMonitorArg(p) == <<",", " ", "<dq>", " ">> \o p.name \o <<"=", "%", "b", "<dq>", ",", " ">> \o p.name
    IN
    <<" ", " ", " ", " ", "\n", " ", " ", " ", " ", "//", " ", "Monitor", " ", "signals",
         "\n", " ", " ", " ", " ", "initial", " ", "begin", "\n", " ", " ", " ", " ", " ", " ",
         " ", " ", "$", "monitor", "(", "<dq>", "Time", "=", "%", "0t", "<dq>", ",", " ", "$",
         "time">>
 \o ConcatMap(TbMonitorArg, info.inputs)
 \o ConcatMap(TbMonitorArg, info.outputs)
 \o <<")", ";", "\n", " ", " ", " ", " ", "end", "\n", " ", " ", " ", " ", "\n", " ", " ",
         " ", " ", "//", " ", "VCD", " ", "dump", " ", "for", " ", "waveform", " ", "viewing",
         "\n", " ", " ", " ", " ", "initial", " ", "begin", "\n">>
 \o <<" ", " ", " ", " ", " ", " ", " ", " ", "$", "dumpfile", "(", "<dq>", "wave", ".",
         "vcd", "<dq>", ")", ";", "\n", " ", " ", " ", " ", " ", " ", " ", " ", "$", "dumpvars",
         "(", "0", ",", " ">> \o info.name \o <<"_tb", ")", ";", "\n">>
 \o <<" ", " ", " ", " ", "end", "\n", "\n", "endmodule", "\n">>

\* TestbenchGenerator.generate_testbench(info, test_vectors), when it
\* does not raise
generate_testbench(info, test_vectors) ==
    LET
        TbParam(param) ==
            <<" ", " ", " ", " ", "parameter", " ">> \o param.name \o <<" ", "=", " ">> \o param.value \o <<";", "\n">>
        TbReg(p) == TbDecl(<<"reg">>, p)
        TbWire(p) == TbDecl(<<"wire">>, p)
    IN
    TbHeader(info.name)
 \o ConcatMap(TbParam, info.parameters)
 \o <<"\n", " ", " ", " ", " ", "//", " ", "Inputs", "\n">>
 \o ConcatMap(TbReg, info.inputs)
 \o <<"\n", " ", " ", " ", " ", "//", " ", "Outputs", "\n">>
 \o ConcatMap(TbWire, info.outputs)
 \o <<"\n", " ", " ", " ", " ", "//", " ", "Inouts", "\n">>
 \o ConcatMap(TbWire, info.inouts)
 \o TbInstance(info)
 \o TbClock(info)
 \o TbReset(info)
 \o TbStimulus(info, test_vectors)
 \o TbMonitor(info)

-----------------------------------------------------------------------------
(* AWaveViewer.extract_module_info_from_testbench *)

\* (\w+)\s*(?:#\s*\([^)]*\))?\s+(\w+)\s*\((.*?)\);  tried at position i
InstantiationAt(s, i) ==
    LET
        \* index of the first ")" directly followed by ";" at or after i, 0 if none
        CloseSemiFrom(str, start) ==
            LET hits == {k \in start..(Len(str) - 1) : str[k] = ")" /\ str[k + 1] = ";"} IN
            IF hits = {} THEN 0 ELSE MinOf(hits)
    IN
    LET e  == WordRunEnd(s, i)                 \* module name is s[i..e-1]
        p  == SpaceRunEnd(s, e)
        h  == SpaceRunEnd(s, p + 1)            \* after "#" and blanks
        c  == IF At(s, p) = "#" /\ At(s, h) = "(" THEN IndexFrom(s, h + 1, ")") ELSE 0
        \* start of the blanks that must precede the instance name
        w  == IF c # 0 THEN c + 1 ELSE e
        r  == SpaceRunEnd(s, w)                \* instance name is s[r..r2-1]
        r2 == WordRunEnd(s, r)
        t  == SpaceRunEnd(s, r2)               \* the opening parenthesis
        u  == CloseSemiFrom(s, t + 1)
    IN  IF /\ IsWord(s[i]) /\ ~IsWord(At(s, i - 1))
           /\ r > w /\ r2 > r /\ At(s, t) = "(" /\ u # 0
        THEN [ok |-> TRUE, module_name |-> SubSeq(s, i, e - 1),
              instance_name |-> SubSeq(s, r, r2 - 1),
              port_connections |-> SubSeq(s, t + 1, u - 1), end |-> u + 1]
        ELSE NoMatch

RECURSIVE InstantiationMatches(_, _)
InstantiationMatches(s, i) ==
    Bind({k \in i..Len(s) : InstantiationAt(s, k).ok}, LAMBDA found :
        IF found = {} THEN <<>>
        ELSE Bind(InstantiationAt(s, MinOf(found)), LAMBDA m :
             <<m>> \o InstantiationMatches(s, m.end + 1)))

\* \.\s*(\w+)\s*\(\s*(\w+)\s*\)  tried at position i
ConnectionAt(s, i) ==
    LET a  == SpaceRunEnd(s, i + 1)
        a2 == WordRunEnd(s, a)
        b  == SpaceRunEnd(s, a2)
        c  == SpaceRunEnd(s, b + 1)
        c2 == WordRunEnd(s, c)
        d  == SpaceRunEnd(s, c2)
    IN  IF s[i] = "." /\ a2 > a /\ At(s, b) = "(" /\ c2 > c /\ At(s, d) = ")"
        THEN [ok |-> TRUE, port_name |-> SubSeq(s, a, a2 - 1),
              signal_name |-> SubSeq(s, c, c2 - 1), end |-> d]
        ELSE NoMatch

RECURSIVE ConnectionMatches(_, _)
ConnectionMatches(s, i) ==
    Bind({k \in i..Len(s) : ConnectionAt(s, k).ok}, LAMBDA found :
        IF found = {} THEN <<>>
        ELSE Bind(ConnectionAt(s, MinOf(found)), LAMBDA m :
             <<m>> \o ConnectionMatches(s, m.end + 1)))

\* re.search(rf'\bkw\s+.*\bname\b', s): kw, blanks, then name later on the
\* line on which the blanks end
DeclaredAs(s, kw, name) ==
    LET
        \* the word w stands at position k as a whole word: \bw\b
        RunAt(str, k, w) ==
            /\ w # <<>>
            /\ k + Len(w) - 1 <= Len(str)
            /\ SubSeq(str, k, k + Len(w) - 1) = w
            /\ ~IsWord(At(str, k - 1))
            /\ ~IsWord(At(str, k + Len(w)))
    IN
    \E i \in 1..Len(s) :
        /\ s[i] = kw /\ ~IsWord(At(s, i - 1))
        /\ At(s, i + 1) \in Whitespace
        /\ LET j == SpaceRunEnd(s, i + 1)
               n == IndexFrom(s, j, "\n")
               eol == IF n = 0 THEN Len(s) + 1 ELSE n
           IN  \E k \in j..(eol - 1) : RunAt(s, k, name)

\* AWaveViewer._extract_signal_width, for bounds that are integer literals
\* or names (eval of a name raises NameError and leaves the bound None)
extract_signal_width(s, name) ==
    LET
        \* re.search(rf'(?:reg|wire)\s*\[([^\]]+)\]\s*name\b', s): the text between
        \* the brackets of the leftmost match, <<>> when there is none
        WidthExprOf(str, nm) ==
            LET Hit(i) ==
                    LET o == SpaceRunEnd(str, i + 1)
                        c == IF At(str, o) = "[" THEN IndexFrom(str, o + 1, "]") ELSE 0
                        k == SpaceRunEnd(str, c + 1)
                    IN  /\ str[i] \in {"reg", "wire"}
                        /\ c > o + 1
                        /\ k + Len(nm) - 1 <= Len(str)
                        /\ SubSeq(str, k, k + Len(nm) - 1) = nm
                        /\ ~IsWord(At(str, k + Len(nm)))
                hits == {i \in 1..Len(str) : Hit(i)}
            IN  IF hits = {} THEN <<>>
                ELSE LET i == MinOf(hits)
                         o == SpaceRunEnd(str, i + 1)
                     IN  SubSeq(str, o + 1, IndexFrom(str, o + 1, "]") - 1)
    IN
    Bind(WidthExprOf(s, name), LAMBDA expr :
    Bind(IndexFrom(expr, 1, ":"), LAMBDA colon :
    Bind(SubSeq(expr, 1, colon - 1), LAMBDA msb :
    Bind(SubSeq(expr, colon + 1, Len(expr)), LAMBDA rest :
    Bind(IF IndexFrom(rest, 1, ":") = 0 THEN rest
         ELSE SubSeq(rest, 1, IndexFrom(rest, 1, ":") - 1), LAMBDA lsb :
        IF expr = <<>> THEN <<"1">>
        ELSE IF colon # 0 THEN
            IF IntOk(msb) /\ IntOk(lsb)
            THEN Bind(IntOf(msb) - IntOf(lsb), LAMBDA d :
                 IntStr((IF d < 0 THEN 0 - d ELSE d) + 1))
            ELSE expr
        ELSE IF IntOk(expr) THEN IntStr(IntOf(expr) + 1) ELSE expr)))))

\* the loop over the port connections of the instantiation found
RECURSIVE ExtractPorts(_, _, _)
ExtractPorts(s, conns, info) ==
    IF conns = <<>> THEN info
    ELSE Bind(conns[1], LAMBDA c :
         ExtractPorts(s, Tail(conns),
            IF DeclaredAs(s, "reg", c.signal_name)
            THEN [info EXCEPT !.inputs =
                     Append(@, [name |-> c.port_name,
                                width |-> extract_signal_width(s, c.signal_name),
                                type |-> "input"])]
            ELSE IF DeclaredAs(s, "wire", c.signal_name)
            THEN [info EXCEPT !.outputs =
                     Append(@, [name |-> c.port_name,
                                width |-> extract_signal_width(s, c.signal_name),
                                type |-> "output"])]
            ELSE [info EXCEPT !.inputs =
                     Append(@, [name |-> c.port_name, width |-> <<"1">>,
                                type |-> "input"])]))

\* extract_module_info_from_testbench(testbench_content)
extract_module_info_from_testbench(s) ==
    LET
        SkippedModuleNames == {<<"module">>, <<"initial">>, <<"always">>, <<"assign">>,
                               <<"reg">>, <<"wire">>, <<"integer">>}
        EmptyExtractedInfo ==
            [name |-> <<>>, parameters |-> <<>>, inputs |-> <<>>, outputs |-> <<>>,
             inouts |-> <<>>]
    IN
    Bind(InstantiationMatches(s, 1), LAMBDA ms :
    Bind({i \in 1..Len(ms) : ms[i].module_name \notin SkippedModuleNames}, LAMBDA duts :
        IF duts = {} THEN EmptyExtractedInfo
        ELSE Bind(ms[MinOf(duts)], LAMBDA m :
             ExtractPorts(s, ConnectionMatches(m.port_connections, 1),
                          [EmptyExtractedInfo EXCEPT !.name = m.module_name]))))

-----------------------------------------------------------------------------
(* AWaveViewer: the texts the user types or opens *)

\* the texts the source editor can hold after an edit or a file load
Sources ==
    LET
        \* a module that passes check_syntax
        SrcValid == <<"module", " ", "m", "(", "input", " ", "a", ",", " ", "output", " ", "y", ")", ";",
                 "\n", "assign", " ", "y", " ", "=", " ", "a", ";", "\n", "endmodule", "\n">>

        SrcNoModule == <<"wire", " ", "w", ";", "\n">>

        SrcUnclosed == <<"module", " ", "m", "(", "input", " ", "a", ",", " ", "output", " ", "y", ";", "\n",
                 "endmodule", "\n">>

        SrcWarn == <<"module", " ", "m", "(", "input", " ", "a", ")", ";", "\n", "initial", " ", "begin",
                 "\n", "endmodule", "\n">>
    IN
    {SrcValid, SrcNoModule, SrcUnclosed, SrcWarn}

TestbenchFiles ==
    LET
        \* a testbench for a device kept in another file; it names no dump file
        TbPlain ==
            <<"module", " ", "m_tb", ";", "\n", "reg", " ", "a", ";", "\n", "wire", " ", "y", ";",
                 "\n", "m", " ", "uut", "(", ".", "a", "(", "a", ")", ",", " ", ".", "y", "(", "y", ")",
                 ")", ";", "\n", "endmodule", "\n">>

        \* a testbench that contains its device under test, with a signal whose
        \* width is given by a parameter
        TbParamWidth ==
            <<"module", " ", "m", "(", "input", " ", "[", "W", ":", "0", "]", " ", "a", ")", ";",
                 "\n", "endmodule", "\n", "module", " ", "t", ";", "\n", "reg", " ", "[", "W", ":", "0",
                 "]", " ", "a", ";", "\n", "m", " ", "dut", "(", ".", "a", "(", "a", ")", ")", ";",
                 "\n", "initial", " ", "$", "dumpfile", "(", "<dq>", "wave", ".", "vcd", "<dq>", ")",
                 ";", "\n", "endmodule", "\n">>
    IN
    {TbPlain, TbParamWidth}


Replies == {"Yes", "No"}

-----------------------------------------------------------------------------
(* AWaveViewer: main-window handlers *)

\* "not text.strip()"
Blank(text) == Strip(text) = <<>>

\* the user edits the text of the source editor
EditSource ==
    /\ \E text \in Sources : verilog_editor' = text
    /\ handler' = "edit"
    /\ UNCHANGED <<module_info, testbench_code, tb_editor, gen_tb_btn, run_sim_btn,
                   statusBar, vcd_file, testbench_v, wave_vcd, sim_threads, events,
                   generator_calls, nonAppVars>>

\* AWaveViewer.parse_verilog on the editor text code while the status bar
\* shows status: what it leaves in module_info, gen_tb_btn and statusBar
parse_verilog(code, status) ==
    IF Blank(code)
    THEN [module_info |-> module_info, gen_tb_btn |-> gen_tb_btn, statusBar |-> status]
    ELSE Bind(parse_module(code), LAMBDA info :
         IF info.name = <<>>
         THEN [module_info |-> info, gen_tb_btn |-> gen_tb_btn, statusBar |-> status]
         ELSE [module_info |-> info, gen_tb_btn |-> TRUE,
               statusBar |-> <<"Parsed module: ">> \o info.name])

ParseVerilog ==
    /\ \E r \in {parse_verilog(verilog_editor, statusBar)} :
           /\ module_info' = r.module_info
           /\ gen_tb_btn' = r.gen_tb_btn
           /\ statusBar' = r.statusBar
    /\ handler' = "parse_verilog"
    /\ UNCHANGED <<verilog_editor, testbench_code, tb_editor, run_sim_btn, vcd_file,
                   testbench_v, wave_vcd, sim_threads, events, generator_calls,
                   nonAppVars>>

\* AWaveViewer.load_verilog_file; file is None when the dialog is cancelled
LoadVerilogFile ==
    \E file \in {None} \cup Sources :
        /\ handler' = "load_verilog_file"
        /\ IF file = None
           THEN UNCHANGED <<verilog_editor, module_info, gen_tb_btn, statusBar>>
           ELSE /\ verilog_editor' = file
                /\ \E r \in {parse_verilog(file, <<"Loaded: ", "<file_path>">>)} :
                       /\ module_info' = r.module_info
                       /\ gen_tb_btn' = r.gen_tb_btn
                       /\ statusBar' = r.statusBar
        /\ UNCHANGED <<testbench_code, tb_editor, run_sim_btn, vcd_file, testbench_v,
                       wave_vcd, sim_threads, events, generator_calls, nonAppVars>>

\* generate_testbench after check_syntax returned chk and the user answered
\* reply to the question, if one is asked: "generate", "cancelled" or "failed"
SyntaxGate_ErrorsAsWarnings(chk, reply) ==
    IF chk.messages # <<>> /\ reply = "No" THEN "cancelled" ELSE "generate"

SyntaxGate(chk, reply) ==
    IF chk.messages # <<>>
    THEN IF chk.is_valid
         THEN IF reply = "No" THEN "cancelled" ELSE "generate"
         ELSE "failed"
    ELSE "generate"

\* AWaveViewer.generate_testbench
GenerateTestbench ==
    \* test_vectors_spin.value(): its minimum and its initial value
    \E reply \in Replies, test_vectors \in {10, 100} :
    \E gate \in {SyntaxGate(check_syntax(verilog_editor), reply)} :
        /\ handler' = "generate_testbench"
        /\ IF module_info = NoModuleInfo \/ Blank(verilog_editor)
           THEN UNCHANGED <<testbench_code, tb_editor, run_sim_btn, statusBar,
                            generator_calls>>
           ELSE IF gate = "cancelled"
           THEN /\ statusBar' = <<"Testbench generation cancelled">>
                /\ UNCHANGED <<testbench_code, tb_editor, run_sim_btn, generator_calls>>
           ELSE IF gate = "failed"
           THEN /\ statusBar' = <<"Syntax check failed - fix errors first">>
                /\ UNCHANGED <<testbench_code, tb_editor, run_sim_btn, generator_calls>>
           ELSE /\ generator_calls' = generator_calls \cup {module_info.name}
                /\ IF GenerateRaises(module_info)
                   THEN /\ statusBar' = <<"Testbench generation failed">>
                        /\ UNCHANGED <<testbench_code, tb_editor, run_sim_btn>>
                   ELSE /\ testbench_code' = generate_testbench(module_info, test_vectors)
                        /\ tb_editor' = testbench_code'
                        /\ run_sim_btn' = TRUE
                        /\ statusBar' = <<"Testbench generated successfully">>
        /\ UNCHANGED <<verilog_editor, module_info, gen_tb_btn, vcd_file, testbench_v,
                       wave_vcd, sim_threads, events, nonAppVars>>

\* AWaveViewer.load_testbench; file is None when the dialog is cancelled
LoadTestbench ==
    LET
        \* the status message load_testbench ends with, for the testbench text file
        \* and the ModuleInfo info extracted from it
        LoadedStatus(file, info) ==
            Bind(ModuleNameOf(file), LAMBDA tb_module_name :
            Bind(IF info.name # <<>> THEN <<"Module '">> \o info.name \o <<"' extracted">>
                 ELSE <<"Could not auto-extract module info">>, LAMBDA extraction_status :
                IF tb_module_name # <<>>
                THEN <<"Testbench '">> \o tb_module_name \o <<"' loaded - ">> \o extraction_status
                ELSE <<"Testbench loaded - ">> \o extraction_status))
    IN
    \E file \in {None} \cup TestbenchFiles, reply \in Replies :
        /\ handler' = "load_testbench"
        /\ IF file = None \/ Blank(file)
           THEN UNCHANGED <<module_info, testbench_code, tb_editor, gen_tb_btn, statusBar>>
           ELSE \E chk \in {check_syntax(file)} :
                IF chk.messages # <<>> /\ reply = "No"
                THEN /\ statusBar' = IF chk.is_valid
                                     THEN <<"Testbench loading cancelled">>
                                     ELSE <<"Testbench loading cancelled due to errors">>
                     /\ UNCHANGED <<module_info, testbench_code, tb_editor, gen_tb_btn>>
                ELSE \E info \in {extract_module_info_from_testbench(file)} :
                     /\ testbench_code' = file
                     /\ tb_editor' = file
                     /\ module_info' = IF info.name # <<>> THEN info ELSE module_info
                     /\ gen_tb_btn' = IF info.name # <<>> THEN TRUE ELSE gen_tb_btn
                     /\ statusBar' = LoadedStatus(file, info)
        /\ UNCHANGED <<verilog_editor, run_sim_btn, vcd_file, testbench_v, wave_vcd,
                       sim_threads, events, generator_calls, nonAppVars>>


-----------------------------------------------------------------------------
(* AWaveViewer.run_simulation *)

\* (\w+)\s+(?:uut|dut|u1|inst|i_\w+)\s*\(  tried at position i; the prefix
\* i_ of an instance name is a symbol of its own
DutInstantiationAt(s, i) ==
    LET
        InstanceNames == {<<"uut">>, <<"dut">>, <<"u1">>, <<"inst">>}
    IN
    LET e  == WordRunEnd(s, i)
        r  == SpaceRunEnd(s, e)
        r2 == WordRunEnd(s, r)
        t  == SpaceRunEnd(s, r2)
        instance == SubSeq(s, r, r2 - 1)
    IN  IF /\ IsWord(s[i]) /\ ~IsWord(At(s, i - 1))
           /\ r > e
           /\ \/ instance \in InstanceNames
              \/ Len(instance) >= 2 /\ instance[1] = "i_"
           /\ At(s, t) = "("
        THEN [ok |-> TRUE, name |-> SubSeq(s, i, e - 1)]
        ELSE NoMatch

\* re.search of that pattern: the leftmost match
DutInstantiation(s) ==
    Bind({i \in 1..Len(s) : DutInstantiationAt(s, i).ok}, LAMBDA found :
        IF found = {} THEN NoMatch ELSE DutInstantiationAt(s, MinOf(found)))

\* re.search(rf'module\s+{dut_module_name}\s*[\(;]', s)
DefinesModule(s, dut_module_name) ==
    \E i \in 1..Len(s) :
        /\ s[i] \in {"module", "endmodule"}
        /\ At(s, i + 1) \in Whitespace
        /\ LET j == SpaceRunEnd(s, i + 1)
               k == j + Len(dut_module_name)
           IN  /\ k - 1 <= Len(s)
               /\ SubSeq(s, j, k - 1) = dut_module_name
               /\ At(s, SpaceRunEnd(s, k)) \in {"(", ";"}

\* re.findall(r'module\s+(\w+)', s) from position i on
RECURSIVE AllModules(_, _)
AllModules(s, i) ==
    Bind({k \in i..Len(s) :
             /\ s[k] \in {"module", "endmodule"}
             /\ At(s, k + 1) \in Whitespace
             /\ IsWord(At(s, SpaceRunEnd(s, k + 1)))}, LAMBDA found :
        IF found = {} THEN <<>>
        ELSE Bind(SpaceRunEnd(s, MinOf(found) + 1), LAMBDA j :
             Bind(WordRunEnd(s, j), LAMBDA e :
                 <<SubSeq(s, j, e - 1)>> \o AllModules(s, e))))

\* the name of the minimal module_info run_simulation creates
MinimalModuleName(tb, verilog_content) ==
    LET
        \* 'tb' not in m.lower() and 'test' not in m.lower()
        NotTestbenchName(m) ==
            ~\E i \in 1..Len(m) : m[i] \in {"tb", "_tb", "TB", "test", "Test", "_test", "testbench"}
    IN
    Bind(DutInstantiation(tb), LAMBDA module_match :
        IF module_match.ok THEN module_match.name
        ELSE IF verilog_content # <<>>
        THEN Bind(ModuleNameOf(verilog_content), LAMBDA name :
                  IF name # <<>> THEN name ELSE <<"design">>)
        ELSE Bind(AllModules(tb, 1), LAMBDA all_modules :
             Bind(Filter(NotTestbenchName, all_modules), LAMBDA dut_modules :
                  IF dut_modules # <<>> THEN dut_modules[1]
                  ELSE IF all_modules # <<>> THEN all_modules[1]
                  ELSE <<"design">>)))

\* run_simulation found the device under test defined in the testbench
DetectsDut(tb) ==
    Bind(DutInstantiation(tb), LAMBDA instantiation_match :
        instantiation_match.ok /\ DefinesModule(tb, instantiation_match.name))

\* the module_info run_simulation hands to the thread
SimulatedModuleInfo(tb, verilog_content) ==
    IF module_info = NoModuleInfo \/ module_info.name = <<>>
    THEN [name |-> MinimalModuleName(tb, verilog_content),
          parameters |-> <<>>, inputs |-> <<>>, outputs |-> <<>>, inouts |-> <<>>]
    ELSE module_info

\* AWaveViewer.run_simulation.  reply answers the "No Verilog Source"
\* question and file is what the file dialog returns, when they are asked.
run_simulation(limit) ==
    LET
        \* "not x" for a text or None
        Falsy(x) == x = None \/ x = <<>>
        \* SimulationThread.__init__
        NewThread(info) ==
            [pc |-> "start", module_info |-> info, failed |-> "none", finished |-> <<>>]
    IN
    \E reply \in Replies, file \in {None} \cup Sources :
        /\ handler' = "run_simulation"
        /\ IF Falsy(testbench_code)
           THEN UNCHANGED <<verilog_editor, module_info, run_sim_btn, statusBar,
                            testbench_v, sim_threads>>
           ELSE \E asked \in {Blank(verilog_editor) /\ ~DetectsDut(testbench_code)} :
                \E loads \in {asked /\ reply = "Yes" /\ file # None} :
                \E verilog_content \in {IF loads THEN file
                                         ELSE IF asked THEN <<>> ELSE verilog_editor} :
                \E info \in {SimulatedModuleInfo(testbench_code, verilog_content)} :
                    /\ Len(sim_threads) < limit
                    /\ verilog_editor' = IF loads THEN file ELSE verilog_editor
                    /\ module_info' = info
                    /\ testbench_v' = testbench_code
                    /\ run_sim_btn' = FALSE
                    /\ statusBar' = <<"Running simulation...">>
                    /\ sim_threads' = Append(sim_threads, NewThread(info))
        /\ UNCHANGED <<testbench_code, tb_editor, gen_tb_btn, vcd_file, wave_vcd,
                       events, generator_calls, nonAppVars>>

\* sessions with at most MaxRuns runs
RunSimulation == run_simulation(MaxRuns)

\* sessions with at most MaxReruns runs
RunSimulationAgain == run_simulation(MaxReruns)

-----------------------------------------------------------------------------
(* SimulationThread *)

Progress(message) == [kind |-> "progress", message |-> message, success |-> FALSE]
Finished(success) == [kind |-> "finished", message |-> "", success |-> success]

\* what a call of generate_sample_vcd can do: write wave.vcd and emit
\* finished(True), or raise before the file is opened.  A signal that is
\* neither clock nor reset and has a negative width raises ValueError in
\* (1 << width) at the first random change drawn for it.
SampleVcdOutcomes(info) ==
    LET
        \* int(p['width']) raises ValueError
        WidthRaises(p) == HasStrWidth(p) /\ p.width # <<>> /\ ~IntOk(p.width)
        \* width_int = int(p['width']) if p['width'] else 1
        WidthInt(p) ==
            IF HasStrWidth(p) THEN (IF p.width = <<>> THEN 1 ELSE IntOf(p.width))
            ELSE IF p.width = 0 THEN 1 ELSE p.width
    IN
    LET ports == info.inputs \o info.outputs
        Mapped(i) == ~\E j \in (i + 1)..Len(ports) : ports[j].name = ports[i].name
    IN  IF \E i \in 1..Len(ports) : WidthRaises(ports[i]) THEN {"raised"}
        ELSE IF \E i \in 1..Len(ports) :
                    /\ Mapped(i)
                    /\ WidthInt(ports[i]) < 0
                    /\ ~IsClockName(ports[i].name) /\ ~IsResetName(ports[i].name)
        THEN {"written", "raised"}
        ELSE {"written"}

\* wave.vcd as generate_sample_vcd of thread i writes it: one $var line per
\* port
SampleVcd(info, i) ==
    [exists |-> TRUE, signals |-> info.inputs \o info.outputs # <<>>, run |-> i]

\* the signals evs emitted by thread i, as they are queued for the slots
Sent(i, evs) == [k \in 1..Len(evs) |-> evs[k] @@ [thread |-> i]]

\* slip: the except clause of run_iverilog_simulation emits finished(False)
\* before it calls the generator once more
EndBySampleVcd_EmitsTwice(i, pre, where, stage) ==
    LET info == sim_threads[i].module_info IN
    \E first, second \in SampleVcdOutcomes(info) :
        LET again == where = "try" /\ first = "raised"
            last == IF again THEN second ELSE first
            emitted ==
                pre \o <<Progress("Generating sample waveform data...")>>
                \o (IF again
                    THEN <<Finished(FALSE),
                           Progress("Simulation error, using built-in generator..."),
                           Progress("Generating sample waveform data...")>>
                    ELSE <<>>)
                \o (IF last = "written"
                    THEN <<Progress("Sample VCD generated successfully!"), Finished(TRUE)>>
                    ELSE <<Finished(FALSE)>>)
        IN  /\ events' = events \o Sent(i, emitted)
            /\ wave_vcd' = IF last = "written" THEN SampleVcd(info, i) ELSE wave_vcd
            /\ sim_threads' = [sim_threads EXCEPT ![i] =
                   [@ EXCEPT !.pc = "done", !.failed = stage,
                             !.finished = (IF again THEN <<FALSE>> ELSE <<>>)
                                           \o <<last = "written">>]]

\* Thread i ends through generate_sample_vcd after emitting the signals pre.
\* where is "run" (called from run), "try" (called inside the try block of
\* run_iverilog_simulation, whose except clause calls it once more) or
\* "handler" (called from an except clause).  stage is the simulator stage
\* that failed, "none" when the simulator is not installed.
EndBySampleVcd(i, pre, where, stage) ==
    LET info == sim_threads[i].module_info IN
    \E first, second \in SampleVcdOutcomes(info) :
        LET again == where = "try" /\ first = "raised"
            last == IF again THEN second ELSE first
            emitted ==
                pre \o <<Progress("Generating sample waveform data...")>>
                \o (IF again
                    THEN <<Progress("Simulation error, using built-in generator..."),
                           Progress("Generating sample waveform data...")>>
                    ELSE <<>>)
                \o (IF last = "written"
                    THEN <<Progress("Sample VCD generated successfully!"), Finished(TRUE)>>
                    ELSE <<Finished(FALSE)>>)
        IN  /\ events' = events \o Sent(i, emitted)
            /\ wave_vcd' = IF last = "written" THEN SampleVcd(info, i) ELSE wave_vcd
            /\ sim_threads' = [sim_threads EXCEPT ![i] =
                   [@ EXCEPT !.pc = "done", !.failed = stage,
                             !.finished = <<last = "written">>]]

\* SimulationThread.run up to the return of check_iverilog
ThreadCheckIverilog ==
    \E i \in 1..Len(sim_threads), available \in BOOLEAN :
        /\ sim_threads[i].pc = "start"
        /\ IF available
           THEN /\ sim_threads' = [sim_threads EXCEPT ![i].pc = "compile"]
                /\ events' = events \o Sent(i, <<Progress("Checking for Icarus Verilog..."),
                                                  Progress("Compiling Verilog files...")>>)
                /\ UNCHANGED wave_vcd
           ELSE EndBySampleVcd(i,
                    <<Progress("Checking for Icarus Verilog..."),
                      Progress("Icarus Verilog not found. Using built-in VCD generator...")>>,
                    "run", "none")
        /\ UNCHANGED <<uiVars, testbench_v, handler, generator_calls, nonAppVars>>

SimulatorResults == {"ok", "nonzero", "timeout", "raised"}

\* what follows a failed simulator stage
Fallback(i, result, stage, nonzero_message) ==
    IF result = "nonzero"
    THEN EndBySampleVcd(i, <<Progress(nonzero_message)>>, "try", stage)
    ELSE IF result = "timeout"
    THEN EndBySampleVcd(i, <<Progress("Simulation timeout, using built-in generator...")>>,
                        "handler", stage)
    ELSE EndBySampleVcd(i, <<Progress("Simulation error, using built-in generator...")>>,
                        "handler", stage)

\* run_iverilog_simulation: the return of the compiler
ThreadCompile ==
    \E i \in 1..Len(sim_threads), result \in SimulatorResults :
        /\ sim_threads[i].pc = "compile"
        /\ IF result = "ok"
           THEN /\ sim_threads' = [sim_threads EXCEPT ![i].pc = "vvp"]
                /\ events' = events \o Sent(i, <<Progress("Running simulation...")>>)
                /\ UNCHANGED wave_vcd
           ELSE Fallback(i, result, "compile",
                         "Compilation failed, using built-in generator...")
        /\ UNCHANGED <<uiVars, testbench_v, handler, generator_calls, nonAppVars>>

\* run_iverilog_simulation: the return of vvp.  A run that exits with 0 has
\* written wave.vcd only if the testbench it ran names a dump file; whether
\* that file declares signals is up to the testbench.
ThreadVvp ==
    LET
        \* the testbench names a dump file: $dumpfile
        HasDumpfile(tb) == \E k \in 1..Len(tb) : tb[k] = "$" /\ At(tb, k + 1) = "dumpfile"
    IN
    \E i \in 1..Len(sim_threads), result \in SimulatorResults,
       dumped \in BOOLEAN, declares \in BOOLEAN :
        /\ sim_threads[i].pc = "vvp"
        /\ IF result = "ok"
           THEN /\ dumped => HasDumpfile(testbench_v)
                /\ declares => dumped
                /\ wave_vcd' = IF dumped
                               THEN [exists |-> TRUE, signals |-> declares, run |-> i]
                               ELSE wave_vcd
                /\ sim_threads' = [sim_threads EXCEPT ![i] =
                       [@ EXCEPT !.pc = "done", !.finished = <<TRUE>>]]
                /\ events' = events \o Sent(i, <<Progress("Simulation completed successfully!"),
                                                  Finished(TRUE)>>)
           ELSE Fallback(i, result, "run",
                         "Simulation failed, using built-in generator...")
        /\ UNCHANGED <<uiVars, testbench_v, handler, generator_calls, nonAppVars>>

-----------------------------------------------------------------------------
(* AWaveViewer: the slots connected to the thread's signals *)

\* AWaveViewer.on_simulation_progress
OnSimulationProgress ==
    /\ events # <<>>
    /\ Head(events).kind = "progress"
    /\ statusBar' = <<Head(events).message>>
    /\ events' = Tail(events)
    /\ handler' = "on_simulation_progress"
    /\ UNCHANGED <<verilog_editor, module_info, testbench_code, tb_editor, gen_tb_btn,
                   run_sim_btn, vcd_file, testbench_v, wave_vcd, sim_threads,
                   generator_calls, nonAppVars>>

\* AWaveViewer.load_vcd(wave.vcd) after the status message before: what it
\* leaves in vcd_file and statusBar
load_vcd(before) ==
    IF wave_vcd.signals
    THEN [vcd_file |-> <<"wave.vcd">>, statusBar |-> <<"Loaded VCD: ", "wave.vcd">>]
    ELSE [vcd_file |-> vcd_file, statusBar |-> before]

\* AWaveViewer.on_simulation_finished
OnSimulationFinished ==
    /\ events # <<>>
    /\ Head(events).kind = "finished"
    /\ events' = Tail(events)
    /\ run_sim_btn' = TRUE
    /\ IF Head(events).success
       THEN /\ handler' = "on_simulation_finished(True)"
            /\ LET r == IF wave_vcd.exists
                        THEN load_vcd(<<"Simulation completed successfully">>)
                        ELSE [vcd_file |-> vcd_file,
                              statusBar |-> <<"Simulation completed successfully">>]
               IN  vcd_file' = r.vcd_file /\ statusBar' = r.statusBar
       ELSE /\ handler' = "on_simulation_finished(False)"
            /\ statusBar' = <<"Simulation failed">>
            /\ UNCHANGED vcd_file
    /\ UNCHANGED <<verilog_editor, module_info, testbench_code, tb_editor, gen_tb_btn,
                   testbench_v, wave_vcd, sim_threads, generator_calls, nonAppVars>>

InitApp == VCDInit /\ QueryIdle /\ AppInit /\ CallIdle

\* sessions of editing, parsing, loading and generating
NextApp ==
    \/ EditSource
    \/ ParseVerilog
    \/ LoadVerilogFile
    \/ GenerateTestbench
    \/ LoadTestbench

SpecApp == InitApp /\ [][NextApp]_vars

\* sessions of loading a testbench and simulating it
NextSim ==
    \/ LoadTestbench
    \/ RunSimulation
    \/ ThreadCheckIverilog
    \/ ThreadCompile
    \/ ThreadVvp
    \/ OnSimulationProgress
    \/ OnSimulationFinished

SpecSim == InitApp /\ [][NextSim]_vars

\* sessions of loading one testbench (load_testbench before anything else)
\* and simulating it repeatedly
SpecRuns ==
    /\ InitApp
    /\ [][ \/ (testbench_code = None /\ LoadTestbench)
           \/ RunSimulationAgain
           \/ ThreadCheckIverilog
           \/ ThreadCompile
           \/ ThreadVvp
           \/ OnSimulationProgress
           \/ OnSimulationFinished ]_vars

\* a started QThread runs to the end of run (the simulator calls carry
\* timeouts), and the event loop of the main window delivers every queued
\* signal
FairRuns ==
    /\ SpecRuns
    /\ WF_vars(ThreadCheckIverilog)
    /\ WF_vars(ThreadCompile)
    /\ WF_vars(ThreadVvp)
    /\ WF_vars(OnSimulationProgress)
    /\ WF_vars(OnSimulationFinished)

-----------------------------------------------------------------------------
(* Calls of the static methods on given arguments *)

\* the texts made of at most n of the given pieces
RECURSIVE Joined(_, _)
Joined(pieces, n) ==
    IF n = 0 THEN {<<>>}
    ELSE Bind(Joined(pieces, n - 1), LAMBDA shorter :
         shorter \cup {c \o t : c \in pieces, t \in shorter})

\* the source texts check_syntax is called on: at most MaxChunks pieces
InitSyntax ==
    LET SyntaxPieces ==
            { <<"module", " ", "m", ";", "\n">>,
              <<"endmodule", "\n">>,
              <<"module">>,
              <<"(">>,
              <<")">>,
              <<"\n">>,
              <<" ", "begin", " ">>,
              <<"//", " ">> }
    IN  /\ VCDInit /\ QueryIdle /\ AppInit
        /\ callPc = "check_syntax"
        /\ callArgs \in {[verilog_code |-> t] : t \in Joined(SyntaxPieces, MaxChunks)}
        /\ callResult = NoResult

\* is_valid, messages = VerilogSyntaxChecker.check_syntax(verilog_code)
CallCheckSyntax ==
    /\ callPc = "check_syntax"
    /\ callResult' = check_syntax(callArgs.verilog_code)
    /\ callPc' = "returned"
    /\ UNCHANGED <<callArgs, nonCallVars>>

SpecSyntax == InitSyntax /\ [][CallCheckSyntax]_vars

\* the source texts parse_module is called on: "module m(" followed by at
\* most MaxDecls declarations of a port or an internal signal, with or
\* without qualifier and range, each followed by a blank
InitModule ==
    LET Declarations ==
            [dir : {"input", "output", "inout"}, qual : {"", "wire", "reg"},
             range : {<<>>, <<3, 0>>}, name : {"a", "b"}, term : {",", ";", ")"}]
            \cup
            [dir : {"wire", "reg"}, qual : {""},
             range : {<<>>, <<3, 0>>}, name : {"a", "b"}, term : {",", ";"}]
        DeclText(d) ==
            <<d.dir, " ">>
         \o (IF d.qual = "" THEN <<>> ELSE <<d.qual, " ">>)
         \o (IF d.range = <<>> THEN <<>>
             ELSE <<"[">> \o NatStr(d.range[1]) \o <<":">> \o NatStr(d.range[2])
                  \o <<"]", " ">>)
         \o <<d.name, d.term, " ">>
        ModuleText(decls) ==
            <<"module", " ", "m", "(">> \o ConcatMap(DeclText, decls)
         \o <<"\n", "endmodule", "\n">>
    IN  /\ VCDInit /\ QueryIdle /\ AppInit
        /\ callPc = "parse_module"
        /\ callArgs \in {[decls |-> ds, verilog_code |-> ModuleText(ds)] :
                             ds \in UNION {[1..n -> Declarations] : n \in 0..MaxDecls}}
        /\ callResult = NoResult

\* module_info = VerilogParser.parse_module(verilog_code)
CallParseModule ==
    /\ callPc = "parse_module"
    /\ callResult' = parse_module(callArgs.verilog_code)
    /\ callPc' = "returned"
    /\ UNCHANGED <<callArgs, nonCallVars>>

SpecModule == InitModule /\ [][CallParseModule]_vars

\* the ModuleInfo records generate_testbench is called on: module m with at
\* most MaxPorts inputs, outputs and inouts (no name twice in a list), with
\* or without a parameter, and the records parse_module builds from the
\* source texts that check_syntax accepts
InitGen ==
    LET Port(name, msb, lsb) ==
            [name |-> name, width |-> msb - lsb + 1, msb |-> msb, lsb |-> lsb]
        Lists(ports) ==
            UNION {{l \in [1..n -> ports] : \A i, j \in 1..n : l[i] = l[j] => i = j} :
                       n \in 0..MaxPorts}
        Inputs == {Port(<<"a">>, 0, 0), Port(<<"d">>, 3, 0),
                   Port(<<"clk">>, 0, 0), Port(<<"clk", "2">>, 0, 0),
                   Port(<<"rst">>, 0, 0), Port(<<"rst", "2">>, 3, 0)}
        Outputs == {Port(<<"y">>, 0, 0), Port(<<"q">>, 7, 0)}
        Inouts == {Port(<<"io">>, 0, 0)}
        Body == <<"\n", "assign", " ", "y", " ", "=", " ", "a", ";", "\n", "endmodule", "\n">>
        Accepted ==
            {<<"module", " ", "m", " ", "#", "(", "parameter", " ", "W", " ", "=", " ", "8",
               ")", " ", "(", "input", " ", "a", ",", " ", "output", " ", "y", ")", ";">> \o Body,
             <<"module", " ", "m", "(", "input", " ", "a", ",", " ", "output", " ", "y", ")",
               ";", "\n", "parameter", " ", "W", " ", "=", " ", "8", ";">> \o Body,
             <<"module", " ", "m", "(", "input", " ", "clk", ",", " ", "input", " ", "[", "3",
               ":", "0", "]", " ", "a", ",", " ", "output", " ", "y", ")", ";">> \o Body,
             <<"module", " ", "m", "(", "input", " ", "a", ";">> \o Body}
    IN  /\ VCDInit /\ QueryIdle /\ AppInit
        /\ callPc = "generate_testbench"
        /\ callArgs \in [module_info : [name : {<<"m">>},
                                         inputs : Lists(Inputs),
                                         outputs : Lists(Outputs),
                                         inouts : Lists(Inouts),
                                         parameters : {<<>>, <<[name |-> <<"W">>, value |-> <<"8">>]>>},
                                         regs : {<<>>}, wires : {<<>>}]
                                        \cup {parse_module(src) :
                                                 src \in {t \in Accepted : check_syntax(t).is_valid}},
                          test_vectors : {100, 3}]
        /\ callResult = NoResult

\* tb_code = TestbenchGenerator.generate_testbench(module_info, test_vectors)
CallGenerateTestbench ==
    /\ callPc = "generate_testbench"
    /\ callResult' = generate_testbench(callArgs.module_info, callArgs.test_vectors)
    /\ callPc' = "returned"
    /\ UNCHANGED <<callArgs, nonCallVars>>

SpecGen == InitGen /\ [][CallGenerateTestbench]_vars

\* slip: the XOR and the XNOR signatures are exchanged
detect_gate_type_Exchanged(truth_table, num_inputs) ==
    LET get(key, default) ==
            IF key \in DOMAIN truth_table THEN truth_table[key] ELSE default
        out == <<get(<<"0", "0">>, "X"), get(<<"0", "1">>, "X"),
                 get(<<"1", "0">>, "X"), get(<<"1", "1">>, "X")>>
        ones_count == Cardinality({k \in DOMAIN truth_table : truth_table[k] = "1"})
    IN  IF num_inputs = 1
        THEN IF get(<<"0">>, "None") = "1" /\ get(<<"1">>, "None") = "0"
             THEN <<"NOT", " ", "Gate">>
             ELSE IF get(<<"0">>, "None") = "0" /\ get(<<"1">>, "None") = "1"
             THEN <<"BUFFER">>
             ELSE <<"Unknown">>
        ELSE IF num_inputs = 2
        THEN IF out = <<"0", "0", "0", "1">> THEN <<"AND", " ", "Gate">>
             ELSE IF out = <<"0", "1", "1", "1">> THEN <<"OR", " ", "Gate">>
             ELSE IF out = <<"1", "0", "0", "1">> THEN <<"XOR", " ", "Gate">>
             ELSE IF out = <<"1", "1", "1", "0">> THEN <<"NAND", " ", "Gate">>
             ELSE IF out = <<"1", "0", "0", "0">> THEN <<"NOR", " ", "Gate">>
             ELSE IF out = <<"0", "1", "1", "0">> THEN <<"XNOR", " ", "Gate">>
             ELSE <<"Custom", " ", "Logic">>
        ELSE IF num_inputs = 3
        THEN IF ones_count = 1 /\ get(<<"1", "1", "1">>, "0") = "1"
             THEN <<"3", "-", "input", " ", "AND">>
             ELSE IF ones_count = 7 /\ get(<<"0", "0", "0">>, "1") = "0"
             THEN <<"3", "-", "input", " ", "OR">>
             ELSE IF ones_count = 4
             THEN <<"3", "-", "input", " ", "XOR", "/", "Complex">>
             ELSE <<"3", "-", "input", " ", "Logic">>
        ELSE NatStr(num_inputs) \o <<"-", "input", " ", "Logic">>

\* AWaveViewer.detect_gate_type(truth_table, num_inputs): truth_table maps
\* tuples of input values to an output value
detect_gate_type(truth_table, num_inputs) ==
    LET \* truth_table.get(key, default)
        get(key, default) ==
            IF key \in DOMAIN truth_table THEN truth_table[key] ELSE default
        out == <<get(<<"0", "0">>, "X"), get(<<"0", "1">>, "X"),
                 get(<<"1", "0">>, "X"), get(<<"1", "1">>, "X")>>
        ones_count == Cardinality({k \in DOMAIN truth_table : truth_table[k] = "1"})
    IN  IF num_inputs = 1
        THEN IF get(<<"0">>, "None") = "1" /\ get(<<"1">>, "None") = "0"
             THEN <<"NOT", " ", "Gate">>
             ELSE IF get(<<"0">>, "None") = "0" /\ get(<<"1">>, "None") = "1"
             THEN <<"BUFFER">>
             ELSE <<"Unknown">>
        ELSE IF num_inputs = 2
        THEN IF out = <<"0", "0", "0", "1">> THEN <<"AND", " ", "Gate">>
             ELSE IF out = <<"0", "1", "1", "1">> THEN <<"OR", " ", "Gate">>
             ELSE IF out = <<"0", "1", "1", "0">> THEN <<"XOR", " ", "Gate">>
             ELSE IF out = <<"1", "1", "1", "0">> THEN <<"NAND", " ", "Gate">>
             ELSE IF out = <<"1", "0", "0", "0">> THEN <<"NOR", " ", "Gate">>
             ELSE IF out = <<"1", "0", "0", "1">> THEN <<"XNOR", " ", "Gate">>
             ELSE <<"Custom", " ", "Logic">>
        ELSE IF num_inputs = 3
        THEN IF ones_count = 1 /\ get(<<"1", "1", "1">>, "0") = "1"
             THEN <<"3", "-", "input", " ", "AND">>
             ELSE IF ones_count = 7 /\ get(<<"0", "0", "0">>, "1") = "0"
             THEN <<"3", "-", "input", " ", "OR">>
             ELSE IF ones_count = 4
             THEN <<"3", "-", "input", " ", "XOR", "/", "Complex">>
             ELSE <<"3", "-", "input", " ", "Logic">>
        ELSE NatStr(num_inputs) \o <<"-", "input", " ", "Logic">>

\* the truth tables analyze_combinational_logic builds: some combinations
\* of the values 0 and 1 of the inputs, each with the output 0 or 1 (with
\* four inputs: one combination)
InitGate ==
    LET Tables(n, rows) ==
            UNION {[D -> {"0", "1"}] :
                      D \in {K \in SUBSET [1..n -> {"0", "1"}] : K # {} /\ Cardinality(K) <= rows}}
    IN  /\ VCDInit /\ QueryIdle /\ AppInit
        /\ callPc = "detect_gate_type"
        /\ callArgs \in UNION {[truth_table : Tables(n, IF n = 4 THEN 1 ELSE 8), num_inputs : {n}] :
                                   n \in 1..4}
        /\ callResult = NoResult

\* gate_type = self.detect_gate_type(truth_table, len(inputs))
CallDetectGateType ==
    /\ callPc = "detect_gate_type"
    /\ callResult' = detect_gate_type(callArgs.truth_table, callArgs.num_inputs)
    /\ callPc' = "returned"
    /\ UNCHANGED <<callArgs, nonCallVars>>

SpecGate == InitGate /\ [][CallDetectGateType]_vars

\* AWaveViewer.verify_gate_logic(gate_type, truth_table, num_inputs): the
\* report, one element per line.  "<ok>" is the check mark, "<x>" the cross,
\* "<b>" the bullet, "<to>" the arrow and "<i>" the information sign.
verify_gate_logic(gate_type, truth_table, num_inputs) ==
    LET get(key, default) ==
            IF key \in DOMAIN truth_table THEN truth_table[key] ELSE default
        \* the characters of the symbols that labels are made of
        Spell == [w \in {"AND", "OR", "XOR", "NAND", "NOR", "XNOR", "NOT"} |->
                     CASE w = "AND" -> <<"A", "N", "D">>
                       [] w = "OR" -> <<"O", "R">>
                       [] w = "XOR" -> <<"X", "O", "R">>
                       [] w = "NAND" -> <<"N", "A", "N", "D">>
                       [] w = "NOR" -> <<"N", "O", "R">>
                       [] w = "XNOR" -> <<"X", "N", "O", "R">>
                       [] w = "NOT" -> <<"N", "O", "T">>]
        Chars(sym) == IF sym \in DOMAIN Spell THEN Spell[sym] ELSE <<sym>>
        label == ConcatMap(Chars, gate_type)
        \* "w" in gate_type
        Has(w) == \E i \in 1..(Len(label) - Len(Spell[w]) + 1) :
                      SubSeq(label, i, i + Len(Spell[w]) - 1) = Spell[w]
        Rules(op, t, l5, l6) ==
            << <<"<ok>", " ", op, " Gate Rules (Correct Logic):">>,
               <<"  ", "<b>", " ", "0", " ", op, " ", "0", " = ", t[1], " ", "<ok>">>,
               <<"  ", "<b>", " ", "0", " ", op, " ", "1", " = ", t[2], " ", "<ok>">>,
               <<"  ", "<b>", " ", "1", " ", op, " ", "0", " = ", t[3], " ", "<ok>">>,
               <<"  ", "<b>", " ", "1", " ", op, " ", "1", " = ", t[4], " ", "<ok>">>,
               <<"  ", "<b>", l5>>, <<"  ", "<b>", l6>> >>
        Verified == << <<"  ", "<ok>", " ALL COMBINATIONS VERIFIED CORRECT!">> >>
        \* the loop over expected.items() and the lines that follow it
        Replay(op, t) ==
            LET keys == << <<"0", "0">>, <<"0", "1">>, <<"1", "0">>, <<"1", "1">> >>
                Error(i) ==
                    IF get(keys[i], "X") # t[i]
                    THEN << <<"  ", "<x>", " Error: ", keys[i][1], " ", op, " ", keys[i][2],
                              " should be ", t[i], ", got ", get(keys[i], "X")>> >>
                    ELSE <<>>
                errors == Error(1) \o Error(2) \o Error(3) \o Error(4)
            IN  IF errors = <<>> THEN Verified ELSE errors
        ReplayNot ==
            LET Error(a, e) ==
                    IF get(<<a>>, "X") # e
                    THEN << <<"  ", "<x>", " Error: ", "NOT", " ", a,
                              " should be ", e, ", got ", get(<<a>>, "X")>> >>
                    ELSE <<>>
                errors == Error("0", "1") \o Error("1", "0")
            IN  IF errors = <<>> THEN Verified ELSE errors
        \* tuple(['1'] * num_inputs), tuple(['0'] * num_inputs)
        all(v) == [i \in 1..num_inputs |-> v]
    IN
    << <<"VERIFICATION:">> >>
 \o (IF Has("AND") /\ ~Has("NAND")
     THEN Rules("AND", <<"0", "0", "0", "1">>, " Output = 1 ONLY when ALL inputs = 1",
                " Output = 0 if ANY input = 0")
       \o (IF num_inputs = 2 THEN Replay("AND", <<"0", "0", "0", "1">>)
           ELSE IF get(all("1"), "0") = "1"
           THEN << <<"  ", "<ok>", " Correct: All ">> \o NatStr(num_inputs) \o <<" inputs = 1 ", "<to>",
                     " Output = 1">> >>
           ELSE << <<"  ", "<x>", " Error: All ">> \o NatStr(num_inputs) \o <<" inputs = 1 should ", "<to>",
                     " Output = 1">> >>)
     ELSE IF Has("OR") /\ ~Has("NOR") /\ ~Has("XOR")
     THEN Rules("OR", <<"0", "1", "1", "1">>, " Output = 1 when ANY input = 1",
                " Output = 0 only when ALL inputs = 0")
       \o (IF num_inputs = 2 THEN Replay("OR", <<"0", "1", "1", "1">>)
           ELSE IF get(all("0"), "1") = "0"
           THEN << <<"  ", "<ok>", " Correct: All ">> \o NatStr(num_inputs) \o <<" inputs = 0 ", "<to>",
                     " Output = 0">> >>
           ELSE << <<"  ", "<x>", " Error: All ">> \o NatStr(num_inputs) \o <<" inputs = 0 should ", "<to>",
                     " Output = 0">> >>)
     ELSE IF Has("XOR") /\ ~Has("XNOR")
     THEN Rules("XOR", <<"0", "1", "1", "0">>, " Output = 1 when inputs are DIFFERENT",
                " Output = 0 when inputs are SAME")
       \o (IF num_inputs = 2 THEN Replay("XOR", <<"0", "1", "1", "0">>) ELSE <<>>)
     ELSE IF Has("NOT")
     THEN << <<"<ok>", " ", "NOT", " Gate Rules (Correct Logic):">>,
             <<"  ", "<b>", " ", "NOT", " ", "0", " = ", "1", " ", "<ok>">>,
             <<"  ", "<b>", " ", "NOT", " ", "1", " = ", "0", " ", "<ok>">>,
             <<"  ", "<b>", " Output = opposite of input">> >>
       \o ReplayNot
     ELSE IF Has("NAND")
     THEN Rules("NAND", <<"1", "1", "1", "0">>, " Output = 0 only when ALL inputs = 1",
                " Inverted AND gate")
       \o (IF num_inputs = 2 THEN Replay("NAND", <<"1", "1", "1", "0">>) ELSE <<>>)
     ELSE IF Has("NOR")
     THEN Rules("NOR", <<"1", "0", "0", "0">>, " Output = 1 only when ALL inputs = 0",
                " Inverted OR gate")
       \o (IF num_inputs = 2 THEN Replay("NOR", <<"1", "0", "0", "0">>) ELSE <<>>)
     ELSE << <<"<i>", " Custom logic detected">>,
             <<"  Check truth table for behavior">> >>)

\* result_text += self.verify_gate_logic(gate_type, truth_table, len(inputs))
CallVerifyGateLogic ==
    /\ callPc = "returned"
    /\ callResult' = [gate_type |-> callResult,
                      verification |-> verify_gate_logic(callResult, callArgs.truth_table,
                                                         callArgs.num_inputs)]
    /\ callPc' = "verified"
    /\ UNCHANGED <<callArgs, nonCallVars>>

SpecVerify == InitGate /\ [][CallDetectGateType \/ CallVerifyGateLogic]_vars

\* SimulationThread.generate_sample_vcd: the lines of vcd_content, or that
\* it raises before the file is opened.  random[i] is what random.random()
\* and random.randint() decide for the i-th signal of signal_map at a time
\* step with random changes: "keep" (no change), "0" (the value 0) or "1"
\* (all bits set).
generate_sample_vcd(info, random) ==
    LET ports == info.inputs \o info.outputs
        \* int(p['width']) raises ValueError
        WidthRaises(p) == HasStrWidth(p) /\ p.width # <<>> /\ ~IntOk(p.width)
        \* width_int = int(p['width']) if p['width'] else 1
        WidthInt(p) ==
            IF HasStrWidth(p) THEN (IF p.width = <<>> THEN 1 ELSE IntOf(p.width))
            ELSE IF p.width = 0 THEN 1 ELSE p.width
        \* chr(var_id) for var_id = 33, 34, ...
        sig_id(i) == <<"!", "<dq>", "#", "$", "%", "&", "'", "(">>[i]
        \* signal_map: a name keeps the place of its first port and holds the
        \* identifier and the width of its last one
        keys == SelectSeq([i \in 1..Len(ports) |-> i] \o <<>>,
                          LAMBDA i : \A j \in 1..(i - 1) : ports[j].name # ports[i].name)
        Last(i) == CHOOSE j \in i..Len(ports) :
                       /\ ports[j].name = ports[i].name
                       /\ \A k \in (j + 1)..Len(ports) : ports[k].name # ports[i].name
        id_of(i) == sig_id(Last(i))
        width_of(i) == WidthInt(ports[Last(i)])
        Repeat(c, n) == [k \in 1..n |-> c]
        Scalar(v, i) == <<v, id_of(i), "\n">>
        Vector(bits, i) == <<"b">> \o bits \o <<SP, id_of(i), "\n">>
        module_name == IF "name" \in DOMAIN info THEN info.name ELSE <<"testbench">>
        header ==
            << <<"$date", "\n">>,
               <<SP, SP, SP, "October", SP, "1", ",", SP, "2", "0", "2", "5", "\n">>,
               <<"$end", "\n">>,
               <<"$version", "\n">>,
               <<SP, SP, SP, "AWaveViewer", SP, "Built-in", SP, "Generator", "\n">>,
               <<"$end", "\n">>,
               <<"$timescale", SP, "1", "ns", SP, "$end", "\n">>,
               <<"$scope", SP, "module", SP>> \o module_name \o <<"_tb", SP, "$end", "\n">>,
               <<"$scope", SP, "module", SP, "uut", SP, "$end", "\n">> >>
         \o [i \in 1..Len(ports) |->
                <<"$var", SP, "wire", SP>> \o IntStr(WidthInt(ports[i])) \o <<SP, sig_id(i), SP>>
                \o ports[i].name \o <<SP, "$end", "\n">>]
         \o << <<"$upscope", SP, "$end", "\n">>,
                <<"$upscope", SP, "$end", "\n">>,
                <<"$enddefinitions", SP, "$end", "\n">> >>
        dumpvars ==
            << <<"#", "0", "\n">>, <<"$dumpvars", "\n">> >>
         \o [k \in 1..Len(keys) |->
                IF width_of(keys[k]) = 1 THEN Scalar("0", keys[k])
                ELSE Vector(Repeat("0", width_of(keys[k])), keys[k])]
         \o << <<"$end", "\n">> >>
        clock_signals == SelectSeq(keys, LAMBDA i : IsClockName(ports[i].name))
        reset_signals == SelectSeq(keys, LAMBDA i : IsResetName(ports[i].name))
        \* the keys that get random changes
        others == {k \in 1..Len(keys) : ~IsClockName(ports[keys[k]].name)
                                          /\ ~IsResetName(ports[keys[k]].name)}
        Changed(k) ==
            IF k \notin others \/ random[k] = "keep" THEN <<>>
            ELSE IF width_of(keys[k]) = 1 THEN <<Scalar(random[k], keys[k])>>
            ELSE <<Vector(Repeat(random[k], width_of(keys[k])), keys[k])>>
        \* the body of  for t in range(0, 1000, 5)
        Step(t) ==
            << <<"#">> \o NatStr(t) \o <<"\n">> >>
         \o (IF clock_signals # <<>>
             THEN <<Scalar(IF (t \div 5) % 2 = 0 THEN "1" ELSE "0", clock_signals[1])>>
             ELSE <<>>)
         \o (IF reset_signals # <<>> /\ t < 50
             THEN <<Scalar(IF t < 20 THEN "1" ELSE "0", reset_signals[1])>>
             ELSE <<>>)
         \o (IF t % 20 = 0 /\ t > 50
             THEN ConcatMap(Changed, [k \in 1..Len(keys) |-> k] \o <<>>)
             ELSE <<>>)
        steps == ConcatMap(LAMBDA n : Step(5 * (n - 1)), [n \in 1..MaxSteps |-> n] \o <<>>)
        \* (1 << width) with a negative width raises ValueError
        shift_raises == \E k \in others : random[k] # "keep" /\ width_of(keys[k]) < 0
    IN  IF (\E i \in 1..Len(ports) : WidthRaises(ports[i])) \/ shift_raises
        THEN [raised |-> TRUE, lines |-> <<>>]
        ELSE [raised |-> FALSE, lines |-> header \o dumpvars \o steps]

\* a ModuleInfo as parse_module builds it, the thread of run_simulation
\* holding it; no wave.vcd in output_dir yet
InitRoundTrip ==
    LET Port(name, msb, lsb) ==
            [name |-> name, width |-> msb - lsb + 1, msb |-> msb, lsb |-> lsb]
        Lists(ports) ==
            UNION {{l \in [1..n -> ports] : \A i, j \in 1..n : l[i] = l[j] => i = j} :
                       n \in 0..MaxPorts}
        Inputs == {Port(<<"a">>, 0, 0), Port(<<"d">>, 3, 0), Port(<<"clk">>, 0, 0),
                   Port(<<"rst">>, 0, 0), Port(<<"e">>, 0, 1), Port(<<"n">>, 0, 3),
                   Port(<<"y">>, 0, 0)}
        Outputs == {Port(<<"y">>, 0, 0), Port(<<"q">>, 7, 0)}
    IN  /\ ParserInit /\ QueryIdle /\ AppInit
        /\ trace = [kind |-> "missing", lines |-> <<>>]
        /\ callPc = "generate_sample_vcd"
        /\ callArgs \in [module_info : [name : {<<"m">>},
                                         inputs : Lists(Inputs),
                                         outputs : Lists(Outputs),
                                         inouts : {<<>>},
                                         parameters : {<<>>},
                                         regs : {<<>>}, wires : {<<>>}]]
        /\ callResult = NoResult

\* the thread writes wave.vcd
CallGenerateSampleVcd ==
    /\ callPc = "generate_sample_vcd"
    /\ \E random \in [1..4 -> {"keep", "0", "1"}] :
           \E out \in {generate_sample_vcd(callArgs.module_info, random)} :
               /\ callPc' = IF out.raised THEN "raised" ELSE "returned"
               /\ trace' = IF out.raised THEN trace ELSE [kind |-> "file", lines |-> out.lines]
    /\ UNCHANGED <<pcParse, in_header, current_time, timescale, signals, changes,
                   scope_hierarchy, line, nLines, returns>>
    /\ UNCHANGED <<callArgs, callResult, queryVars, appVars>>

\* generate_sample_vcd, then VCDParser().parse(wave.vcd) as load_vcd calls it
SpecRoundTrip ==
    /\ InitRoundTrip
    /\ [][ \/ CallGenerateSampleVcd
           \/ ParseOpen
           \/ ParseTimescale
           \/ ParseScope
           \/ ParseUpscope
           \/ ParseVar
           \/ ParseEndDefinitions
           \/ ParseTimeMarker
           \/ ParseScalar
           \/ ParseVector
           \/ ParseOther
           \/ ParseReturn ]_vars

\* "Only include samples with valid values (not X or Z)"
ValidSample_Any(sample) == TRUE

ValidSample(sample) ==
    /\ \A i \in 1..Len(sample.inputs) : sample.inputs[i] \in {<<"0">>, <<"1">>}
    /\ sample.output \in {<<"0">>, <<"1">>}

\* AWaveViewer.analyze_combinational_logic(signals), the_signals holding
\* the list of changes of each signal: what it computes before it fills the
\* widgets.  order is
\* the order in which a set of two values is iterated: a property of the
\* running interpreter (the hashes of the strings), not of the samples.
\* "0" and "1" name the value met first; with "first" and "last" the values
\* share a slot and are met in the order they were added, or in its reverse.
analyze_combinational_logic(the_signals, order) ==
    LET inputs == SubSeq(the_signals, 1, Len(the_signals) - 1)
        output == the_signals[Len(the_signals)]
        times == UNION {{the_signals[k][i][1] : i \in 1..Len(the_signals[k])} : k \in 1..Len(the_signals)}
        \* sorted(time_points)
        time_points == [i \in 1..Cardinality(times) |->
                           CHOOSE t \in times : Cardinality({u \in times : u < t}) = i - 1] \o <<>>
        Sample(time) ==
            [time |-> time,
             inputs |-> [i \in 1..Len(inputs) |-> get_signal_value_at_time(inputs[i], time)],
             output |-> get_signal_value_at_time(output, time)]
        logic_samples == SelectSeq([i \in 1..Len(time_points) |-> Sample(time_points[i])] \o <<>>,
                                   ValidSample)
        \* the text of a value of one character
        Text(v) == v[1]
        \* tuple(sample['inputs'])
        input_tuple(sample) == [i \in 1..Len(sample.inputs) |-> Text(sample.inputs[i])]
        \* truth_table_data[input_combo]
        outputs(input_combo) ==
            LET At_(sample) == input_tuple(sample) = input_combo
                hits == SelectSeq(logic_samples, At_)
            IN  [i \in 1..Len(hits) |-> Text(hits[i].output)]
        \* max(set(outputs), key=outputs.count): the first of the values with
        \* the greatest count in the order of iteration of the set
        most_common(outs) ==
            LET count(v) == Cardinality({i \in 1..Len(outs) : outs[i] = v})
                values == {outs[i] : i \in 1..Len(outs)}
                best == {v \in values : \A w \in values : count(w) <= count(v)}
                added(v) == MinOf({i \in 1..Len(outs) : outs[i] = v})
            IN  IF order \in best THEN order
                ELSE IF order = "last"
                THEN CHOOSE v \in best : \A w \in best : added(w) <= added(v)
                ELSE CHOOSE v \in best : \A w \in best : added(v) <= added(w)
        truth_table == [input_combo \in {input_tuple(logic_samples[i]) :
                                            i \in 1..Len(logic_samples)} |->
                           most_common(outputs(input_combo))]
        gate_type == detect_gate_type(truth_table, Len(inputs))
    IN
    IF logic_samples = <<>> THEN [logic_samples |-> logic_samples]
    ELSE [logic_samples |-> logic_samples,
          truth_table |-> truth_table,
          gate_type |-> gate_type,
          verification |-> verify_gate_logic(gate_type, truth_table, Len(inputs))]

\* the signals analyze_logic_relations passes: one input and the output,
\* each of width 1, with the changes a parse leaves of a trace that gives a
\* signal one value per timestamp
InitLogic ==
    /\ VCDInit /\ QueryIdle /\ AppInit
    /\ callPc = "analyze_combinational_logic"
    /\ callArgs \in {[signals |-> sigs] :
                         sigs \in [1..2 -> {vs \in ChangeLists :
                                               \A i \in 1..Len(vs) - 1 : vs[i][1] < vs[i + 1][1]}]}
    /\ callResult = NoResult

CallAnalyzeCombinationalLogic ==
    /\ callPc = "analyze_combinational_logic"
    /\ \E order \in {"0", "1", "first", "last"} :
           callResult' = analyze_combinational_logic(callArgs.signals, order)
    /\ callPc' = "returned"
    /\ UNCHANGED <<callArgs, nonCallVars>>

SpecLogic == InitLogic /\ [][CallAnalyzeCombinationalLogic]_vars


-----------------------------------------------------------------------------
(* Properties of VCDParser.parse *)

\* the stripped line the loop consumed last
Cur == Strip(line)
\* a step of the loop that consumes one line
LineStep == pcParse = "loop" /\ nLines' = nLines + 1
NewLine == Strip(line')

\* C1: parse is a two-state machine: it starts in Header, leaves Header only
\* on a line that starts with $enddefinitions, and once in Body it never
\* returns to Header.
C1_HeaderBodyMachine ==
    [][ /\ (pcParse = "init" /\ pcParse' = "loop" => in_header')
        /\ (in_header /\ ~in_header' => LineStep /\ StartsWith(NewLine, "$enddefinitions"))
        /\ (~in_header => ~in_header') ]_vars

\* parse returned in Body although the last line was a header-kind line
C1_Witness ==
    /\ pcParse = "returned"
    /\ ~in_header
    /\ Branch(Cur, FALSE) \in {"var", "scope", "enddefinitions"}
    /\ nLines >= 3

NonDecreasing(ts) == \A i, j \in 1..Len(ts) : i < j => ts[i] <= ts[j]

\* the value the contract of value_at asks for
LastChangeAtOrBefore(values, t) ==
    LET S == {i \in 1..Len(values) : values[i][1] <= t} IN
    IF S = {} THEN <<"x">>
    ELSE values[CHOOSE i \in S : \A j \in S : j <= i][2]

\* C2: value_at returns the value of the last change with timestamp <= t,
\* and the unknown value "x" when no change has timestamp <= t.
C2_ValueAtLastChange ==
    qPc = "done" => qResult = LastChangeAtOrBefore(qValues, qTime)

\* C3: after parse the timestamps of every SignalRecord's change list and of
\* the ChangeLog are non-decreasing.
C3_TimestampsSorted ==
    pcParse = "returned" =>
        /\ \A id \in DOMAIN signals :
               NonDecreasing([i \in 1..Len(signals[id].values) |-> signals[id].values[i][1]])
        /\ NonDecreasing([i \in 1..Len(changes) |-> changes[i][1]])

\* a value line of Body state whose identifier is not in the SignalTable
UnknownValueLine(l, hdr, table) ==
    /\ ~hdr
    /\ Branch(l, hdr) \in {"scalar", "vector"}
    /\ Branch(l, hdr) = "vector" => Len(Split(l)) >= 2
    /\ ValueIdent(l) \notin DOMAIN table

\* C8: in Body a value line with an unknown identifier changes no change
\* list, adds nothing to the ChangeLog, leaves the current time alone and
\* parsing goes on.
C8_UnknownIdentDropped ==
    [][ LineStep /\ UnknownValueLine(NewLine, in_header, signals) =>
            /\ signals' = signals
            /\ changes' = changes
            /\ current_time' = current_time
            /\ pcParse' = "loop" ]_vars

\* an unknown identifier was just dropped while records and log entries exist
C8_Witness ==
    /\ pcParse = "loop"
    /\ nLines >= 4
    /\ UnknownValueLine(Cur, in_header, signals)
    /\ changes # <<>>

\* C9: parse raises no error, whatever the lines are.
C9_NoErrorRaised == pcParse # "raised"

\* C10: a $var line after the end-of-definitions marker neither creates nor
\* replaces a record of the SignalTable.
C10_VarOnlyInHeader ==
    [][ LineStep /\ ~in_header /\ StartsWith(NewLine, "$var") => signals' = signals ]_vars

-----------------------------------------------------------------------------
(* Properties of the main window and the simulation thread *)

\* C11: any two calls of parse on the same trace text return equal signal
\* tables and change logs, also on one VCDParser instance and after a call
\* on another trace, and what a call returned is not changed by a later call.
C11_ParseIsPure ==
    /\ \A i, j \in 1..Len(returns) :
           returns[i].trace = returns[j].trace
               => /\ returns[i].signals = returns[j].signals
                  /\ returns[i].changes = returns[j].changes
    /\ \A i \in 1..Len(returns) :
           returns[i].shared
               => returns[i].signals = signals /\ returns[i].changes = changes

\* C12: check_syntax returns is_valid = true exactly when no message of
\* its list has severity Error; warnings and infos never make it false.
C12_ValidIffNoError ==
    callPc = "returned"
        => (callResult.is_valid
                <=> \A i \in 1..Len(callResult.messages) :
                        callResult.messages[i].sev # "ERROR")

\* check_syntax has accepted a text and reported a warning for it
C12_Witness ==
    /\ callPc = "returned"
    /\ callResult.is_valid
    /\ \E i \in 1..Len(callResult.messages) : callResult.messages[i].sev = "WARNING"

\* C13: when the comment-free text has different numbers of module and
\* endmodule keywords, is_valid is false and a "mismatch" message reports
\* both counts.
C13_ModuleCountMismatch ==
    callPc = "returned"
        => LET code == RemoveComments(callArgs.verilog_code)
               mc == CountWords(code, {"module"})
               ec == CountWords(code, {"endmodule"})
           IN  mc # ec
                   => /\ ~callResult.is_valid
                      /\ \E i \in 1..Len(callResult.messages) :
                             /\ callResult.messages[i].text = "Module/endmodule mismatch"
                             /\ callResult.messages[i].n1 = mc
                             /\ callResult.messages[i].n2 = ec

\* the claim about one pair of delimiters: the excess of opening over
\* closing symbols is reported as unclosed, and every closing symbol at
\* which the balance over all symbols before it goes negative is reported
\* with its line
BalanceReported(code, msgs, open, close, unmatched, unclosed) ==
    LET Count(k, c) == Cardinality({i \in 1..k : code[i] = c})
        LineOf(k) == 1 + Count(k - 1, "\n")
        n == Len(code)
    IN  /\ Count(n, open) > Count(n, close)
            => \E i \in 1..Len(msgs) :
                   /\ msgs[i].sev = "ERROR" /\ msgs[i].text = unclosed
                   /\ msgs[i].n1 = Count(n, open) - Count(n, close)
        /\ \A k \in 1..n :
               code[k] = close /\ Count(k, open) - Count(k, close) < 0
                   => \E i \in 1..Len(msgs) :
                          /\ msgs[i].sev = "ERROR" /\ msgs[i].text = unmatched
                          /\ msgs[i].n1 = LineOf(k)

\* C14: the parenthesis and bracket scans keep a running balance over every
\* character: an excess of opens is reported as "unclosed" with its count,
\* every close that makes the balance negative with its 1-based line.
C14_RunningBalance ==
    callPc = "returned"
        => LET code == RemoveComments(callArgs.verilog_code) IN
           /\ BalanceReported(code, callResult.messages, "(", ")",
                  "Unmatched closing parenthesis at line", "unclosed parenthesis/parentheses")
           /\ BalanceReported(code, callResult.messages, "[", "]",
                  "Unmatched closing bracket at line", "unclosed bracket(s)")

\* C15: every port declaration "input|output|inout [wire|reg] [[msb:lsb]]
\* name" ended by "," ";" or ")" is recorded in the list of its direction
\* with width msb - lsb + 1 and msb, lsb as written, or with width 1 and
\* msb = lsb = 0 without a range (stated for names declared once).
C15_PortsRecorded ==
    callPc = "returned"
        => LET decls == callArgs.decls
               list == [input |-> callResult.inputs, output |-> callResult.outputs,
                        inout |-> callResult.inouts]
               Expected(d) ==
                   IF d.range = <<>>
                   THEN [name |-> <<d.name>>, width |-> 1, msb |-> 0, lsb |-> 0]
                   ELSE [name |-> <<d.name>>, width |-> d.range[1] - d.range[2] + 1,
                         msb |-> d.range[1], lsb |-> d.range[2]]
           IN  \A i \in 1..Len(decls) :
                   /\ decls[i].dir \in {"input", "output", "inout"}
                   /\ \A j \in 1..Len(decls) : j # i => decls[j].name # decls[i].name
                   => \E k \in 1..Len(list[decls[i].dir]) :
                          list[decls[i].dir][k] = Expected(decls[i])

\* C16: in a ModuleInfo returned by parse_module no name occurs twice,
\* neither within one list nor across inputs, outputs, inouts, wires and
\* regs.
C16_NoDuplicateNames ==
    callPc = "returned"
        => LET all == callResult.inputs \o callResult.outputs \o callResult.inouts
                      \o callResult.wires \o callResult.regs
           IN  \A i, j \in 1..Len(all) : all[i].name = all[j].name => i = j

\* the names connected, in the order of the text, by the named connections
\* ".name(name)" in the port list of the instance uut
ConnectedNames(tb) ==
    LET uut   == MinOf({i \in 1..Len(tb) : tb[i] = "uut"})
        close == MinOf({i \in uut..(Len(tb) - 1) : tb[i] = ")" /\ tb[i + 1] = ";"})
        dots  == {i \in uut..close : tb[i] = "."}
        Name(i) == SubSeq(tb, i + 1, IndexFrom(tb, i, "(") - 1)
        IsConnection(i) ==
            LET n == Len(Name(i)) IN
            /\ n > 0
            /\ SubSeq(tb, i + n + 2, i + 2 * n + 1) = Name(i)
            /\ At(tb, i + 2 * n + 2) = ")"
    IN  [k \in 1..Cardinality(dots) |->
            LET i == CHOOSE d \in dots : Cardinality({e \in dots : e < d}) = k - 1
            IN  IF IsConnection(i) THEN Name(i) ELSE <<>>]

\* C17: the instantiation of the module under test holds exactly one named
\* port connection .name(name) per port of the ModuleInfo, in the order of
\* its ports (inputs, then outputs, then inouts, each in list order).
C17_PortConnections ==
    callPc = "returned"
        => LET mi == callArgs.module_info
               ports == mi.inputs \o mi.outputs \o mi.inouts
           IN  ConnectedNames(callResult) = [k \in 1..Len(ports) |-> ports[k].name]

C17_Witness ==
    /\ callPc = "returned"
    /\ Len(callArgs.module_info.inputs) = 2
    /\ Len(callArgs.module_info.outputs) = 2
    /\ Len(callArgs.module_info.inouts) = 1
    /\ callArgs.module_info.parameters # <<>>
    /\ Len(ConnectedNames(callResult)) = 5

\* every close has an open of its own before it and no open is left over
Balanced(text, open, close) ==
    \E opens \in {{i \in 1..Len(text) : text[i] = open}} :
    \E closes \in {{i \in 1..Len(text) : text[i] = close}} :
        /\ Cardinality(opens) = Cardinality(closes)
        /\ \A c \in closes :
               Cardinality({o \in opens : o < c}) >= Cardinality({d \in closes : d <= c})

\* C18: the text generate_testbench emits for a well-formed ModuleInfo, one
\* that parse_module built from a source check_syntax accepts included, has,
\* outside its comments, as many module as endmodule and as many begin as
\* end keywords, balanced parentheses and brackets, and check_syntax
\* returns is_valid = true for it.
C18_TestbenchAccepted ==
    callPc = "returned"
        => \E code \in {RemoveComments(callResult)} :
               /\ CountWords(code, {"module"}) = CountWords(code, {"endmodule"})
               /\ CountWords(code, {"begin"}) = CountWords(code, {"end"})
               /\ Balanced(code, "(", ")")
               /\ Balanced(code, "[", "]")
               /\ check_syntax(callResult).is_valid

\* C19: only the first clock-named input is driven as a clock and only the
\* first reset-named input as a reset; every other input, a further
\* clock- or reset-named one included, is set to 0 before the stimulus loop
\* and to a random value masked to its width inside the loop of
\* test_vectors iterations.
C19_OtherInputsDriven ==
    callPc = "returned"
        => LET inputs == callArgs.module_info.inputs
               HasLine(l) ==
                   \E i \in 1..(Len(callResult) - Len(l) - 1) :
                       SubSeq(callResult, i, i + Len(l) + 1) = <<"\n">> \o l \o <<"\n">>
               Indent(n) == [k \in 1..n |-> " "]
               IsFirst(i, Named(_)) ==
                   Named(inputs[i].name) /\ \A j \in 1..(i - 1) : ~Named(inputs[j].name)
               Toggle(p) == Indent(8) \o <<"forever", " ", "#", "5", " ">> \o p.name
                            \o <<" ", "=", " ", "~">> \o p.name
                            \o <<";", " ", " ", "//", " ", "100MHz", " ", "clock">>
               Release(p) == Indent(8) \o <<"#", "20", " ">> \o p.name \o <<" ", "=", " ", "0", ";">>
               Zero(p) == Indent(8) \o p.name \o <<" ", "=", " ", "0", ";">>
               Random(p) ==
                   Indent(12) \o p.name \o <<" ", "=", " ", "$", "random", " ", "%", " ">>
                \o (IF p.width > 1
                    THEN <<"(", "1", " ", "<", "<", " ">> \o IntStr(p.width) \o <<")", ";">>
                    ELSE <<"2", ";">>)
           IN  /\ HasLine(Indent(8) \o <<"for", " ", "(", "i", " ", "=", " ", "0", ";", " ", "i",
                                          " ", "<", " ">> \o IntStr(callArgs.test_vectors)
                           \o <<";", " ", "i", " ", "=", " ", "i", " ", "+", " ", "1", ")", " ",
                                "begin">>)
               /\ \A i \in 1..Len(inputs) :
                      /\ HasLine(Toggle(inputs[i])) <=> IsFirst(i, IsClockName)
                      /\ HasLine(Release(inputs[i])) <=> IsFirst(i, IsResetName)
                      /\ ~IsFirst(i, IsClockName) /\ ~IsFirst(i, IsResetName)
                         => HasLine(Zero(inputs[i])) /\ HasLine(Random(inputs[i]))

\* C20: a complete truth table of two inputs over 0 and 1 is named after
\* the gate whose outputs for 00, 01, 10, 11 it shows, and "Custom Logic"
\* when it shows those of no gate, which is so for ten of the sixteen
\* tables; 0, 0, 0, 1 is the AND gate.
C20_GateOfTable ==
    LET Canonical == {<<"AND", <<"0", "0", "0", "1">>>>, <<"OR", <<"0", "1", "1", "1">>>>,
                      <<"XOR", <<"0", "1", "1", "0">>>>, <<"NAND", <<"1", "1", "1", "0">>>>,
                      <<"NOR", <<"1", "0", "0", "0">>>>, <<"XNOR", <<"1", "0", "0", "1">>>>}
        Complete == [[1..2 -> {"0", "1"}] -> {"0", "1"}]
        Outputs(t) == <<t[<<"0", "0">>], t[<<"0", "1">>], t[<<"1", "0">>], t[<<"1", "1">>]>>
        Gates(t) == {g \in Canonical : g[2] = Outputs(t)}
    IN  /\ Cardinality({t \in Complete : Gates(t) = {}}) = 10
        /\ callPc = "returned" /\ callArgs.num_inputs = 2 /\ callArgs.truth_table \in Complete
           => /\ \A g \in Gates(callArgs.truth_table) : callResult = <<g[1], " ", "Gate">>
              /\ Gates(callArgs.truth_table) = {} => callResult = <<"Custom", " ", "Logic">>
              /\ Outputs(callArgs.truth_table) = <<"0", "0", "0", "1">>
                 => callResult = <<"AND", " ", "Gate">>

C20_Witness ==
    /\ callPc = "returned"
    /\ callArgs.num_inputs = 2
    /\ callArgs.truth_table = [k \in [1..2 -> {"0", "1"}] |->
                                  IF k = <<"1", "1">> THEN "1" ELSE "0"]
    /\ callResult = <<"AND", " ", "Gate">>

\* C22: for a partial truth table (some combination of the values of the
\* inputs is not observed) detect_gate_type returns no label that names a
\* gate function.
C22_PartialTableUnnamed ==
    callPc = "returned" /\ DOMAIN callArgs.truth_table # [1..callArgs.num_inputs -> {"0", "1"}]
        => callResult \notin
               {<<"NOT", " ", "Gate">>, <<"BUFFER">>, <<"AND", " ", "Gate">>,
                <<"OR", " ", "Gate">>, <<"XOR", " ", "Gate">>, <<"NAND", " ", "Gate">>,
                <<"NOR", " ", "Gate">>, <<"XNOR", " ", "Gate">>,
                <<"3", "-", "input", " ", "AND">>, <<"3", "-", "input", " ", "OR">>,
                <<"3", "-", "input", " ", "XOR", "/", "Complex">>}

\* C21: for a table that detect_gate_type labels NOT, AND, OR, XOR, NAND, NOR
\* or XNOR, the report of verify_gate_logic for that label holds no
\* mismatch.
C21_LabelVerifies ==
    (callPc = "verified"
     /\ \E g \in {"NOT", "AND", "OR", "XOR", "NAND", "NOR", "XNOR"} :
            callResult.gate_type = <<g, " ", "Gate">>)
        => \A i \in 1..Len(callResult.verification) :
               "<x>" \notin {callResult.verification[i][j] :
                                j \in 1..Len(callResult.verification[i])}

\* C23: when the label names a gate, every combination of the values of the
\* inputs that the observed table lacks has a line of the report that says
\* "not exercised", and no line of the report is a mismatch that reads "got X"
\* (the value verify_gate_logic substitutes for an absent combination).
C23_AbsentNotExercised ==
    (callPc = "verified"
     /\ callResult.gate_type \notin {<<"Unknown">>, <<"BUFFER">>, <<"Custom", " ", "Logic">>,
                                      <<"3", "-", "input", " ", "Logic">>,
                                      <<"4", "-", "input", " ", "Logic">>})
        => \A key \in [1..callArgs.num_inputs -> {"0", "1"}] \ DOMAIN callArgs.truth_table :
               /\ \E i \in 1..Len(callResult.verification) :
                      \E j \in 1..Len(callResult.verification[i]) :
                          callResult.verification[i][j] = " not exercised"
               /\ \A i \in 1..Len(callResult.verification) :
                      callResult.verification[i][Len(callResult.verification[i])] # "X"

\* C24: the truth table analyze_combinational_logic builds has keys over
\* "0" and "1" and outputs "0" or "1" only, and no sample that holds another
\* value (x, X) takes part in it.
C24_NoUnknownEntries ==
    (callPc = "returned" /\ "truth_table" \in DOMAIN callResult)
        => /\ \A key \in DOMAIN callResult.truth_table :
                  /\ \A i \in 1..Len(key) : key[i] \in {"0", "1"}
                  /\ callResult.truth_table[key] \in {"0", "1"}
           /\ \A i \in 1..Len(callResult.logic_samples) :
                  /\ callResult.logic_samples[i].output \in {<<"0">>, <<"1">>}
                  /\ \A k \in 1..Len(callResult.logic_samples[i].inputs) :
                         callResult.logic_samples[i].inputs[k] \in {<<"0">>, <<"1">>}

\* a table was built from signals of which one is x at a time of change
C24_Witness ==
    /\ callPc = "returned" /\ "truth_table" \in DOMAIN callResult
    /\ \E k \in 1..2 : \E i \in 1..Len(callArgs.signals[k]) :
           \E n \in 1..2 :
               get_signal_value_at_time(callArgs.signals[n], callArgs.signals[k][i][1]) = <<"x">>

\* C25: the truth table is a function of the samples alone: whatever the
\* order in which the interpreter iterates a set, the same signals resolve to
\* the same table.
C25_TieDeterministic ==
    (callPc = "returned" /\ "truth_table" \in DOMAIN callResult)
        => \A order \in {"0", "1", "first", "last"} :
               analyze_combinational_logic(callArgs.signals, order).truth_table
                   = callResult.truth_table

\* C26: the signal table parse returns for the trace generate_sample_vcd
\* wrote holds exactly the names of the inputs and outputs of the ModuleInfo,
\* each with the width the ModuleInfo gives it.
C26_RoundTrip ==
    (pcParse = "returned" /\ callPc = "returned")
        => {<<signals[id].name, signals[id].width>> : id \in DOMAIN signals}
               = {<<p.name, p.width>> :
                      p \in {callArgs.module_info.inputs[i] :
                                 i \in 1..Len(callArgs.module_info.inputs)}
                          \cup {callArgs.module_info.outputs[i] :
                                    i \in 1..Len(callArgs.module_info.outputs)}}

\* C30: in what parse returns, the entries of the change log that carry an
\* identifier of the signal table are, in order, the (timestamp, value)
\* list of its record, and every entry of the change log carries an
\* identifier of the table.
C30_LogMatchesTable ==
    \A r \in 1..Len(returns) :
        LET sigs == returns[r].signals
            chgs == returns[r].changes
        IN  /\ \A id \in DOMAIN sigs :
                   LET Of(c) == c[2] = id
                       own == SelectSeq(chgs, Of)
                   IN  sigs[id].values = [i \in 1..Len(own) |-> <<own[i][1], own[i][3]>>]
            /\ \A i \in 1..Len(chgs) : chgs[i][2] \in DOMAIN sigs

\* C27: run_simulation starts a thread (and writes design.v and
\* testbench.v) only when every thread started before has emitted finished.
C27_OneRunAtATime ==
    [][ Len(sim_threads') > Len(sim_threads)
            => \A i \in 1..Len(sim_threads) : sim_threads[i].finished # <<>> ]_vars

\* C28: a thread emits finished at most once, and once when run has ended;
\* the slot that handles it enables the Run button; and for every started
\* thread the signal is emitted and delivered in the end.
C28_FinishedOnce ==
    /\ [](\A i \in 1..Len(sim_threads) :
              /\ Len(sim_threads[i].finished) <= 1
              /\ sim_threads[i].pc = "done" => Len(sim_threads[i].finished) = 1
              /\ Cardinality({k \in 1..Len(events) :
                                 events[k].kind = "finished" /\ events[k].thread = i})
                     <= Len(sim_threads[i].finished))
    /\ [][ (events # <<>> /\ events' = Tail(events) /\ Head(events).kind = "finished")
               => run_sim_btn' ]_vars
    /\ \A i \in 1..MaxReruns :
           (Len(sim_threads) >= i)
               ~> (/\ Len(sim_threads) >= i
                   /\ Len(sim_threads[i].finished) = 1
                   /\ \A k \in 1..Len(events) : events[k].thread # i)

\* both threads of a session have ended, each by another path, and their
\* signals are delivered
C28_Witness ==
    /\ Len(sim_threads) = 2
    /\ sim_threads[1].pc = "done" /\ sim_threads[2].pc = "done"
    /\ sim_threads[1].finished = <<FALSE>> /\ sim_threads[2].finished = <<TRUE>>
    /\ events = <<>>
    /\ run_sim_btn

\* C29: when on_simulation_finished loads wave.vcd for a run that reports
\* success, the file is not one that a thread started before that run left
\* behind.
C29_NoStaleTrace ==
    [][ (/\ events # <<>> /\ events' = Tail(events)
         /\ Head(events).kind = "finished" /\ Head(events).success
         /\ wave_vcd.exists)
            => wave_vcd.run >= Head(events).thread ]_vars

\* C4: a run in which a simulator stage failed (compile or run exits
\* nonzero, raises, or times out) ends through the synthetic trace generator
\* with finished(success=True), never with finished(success=False).
C4_SimulatorFailureFallsBack ==
    \A i \in 1..Len(sim_threads) :
        sim_threads[i].pc = "done" /\ sim_threads[i].failed # "none"
            => sim_threads[i].finished = <<TRUE>>

\* C5: whenever generate_testbench runs while check_syntax reports an Error
\* for the text of the source editor, testbench_code, the testbench editor
\* and the Run button's enabled state stay as they are.
C5_SynthesisBlockedByErrors ==
    [][ handler' = "generate_testbench" /\ ~check_syntax(verilog_editor).is_valid
            => UNCHANGED <<testbench_code, tb_editor, run_sim_btn>> ]_vars

\* generate_testbench has just refused a source with an Error while a
\* testbench generated earlier is in place
C5_Witness ==
    /\ handler = "generate_testbench"
    /\ statusBar = <<"Syntax check failed - fix errors first">>
    /\ ~check_syntax(verilog_editor).is_valid
    /\ testbench_code # None
    /\ run_sim_btn

\* C6: TestbenchGenerator.generate_testbench is never called with a
\* ModuleInfo whose name is the empty string.
C6_GeneratorNameNeverEmpty == <<>> \notin generator_calls

\* C7: when on_simulation_finished handles success=True and wave.vcd does
\* not exist, the status shown is the failure status.
C7_MissingTraceIsFailure ==
    handler = "on_simulation_finished(True)" /\ ~wave_vcd.exists
        => statusBar = <<"Simulation failed">>

====
